---- MODULE Spec2Model ----
(***************************************************************************)
(* A model of the task scheduler of src/src/tmos.py (class OS) and of the  *)
(* part of BacklightManager that the run loop calls on every tick.         *)
(*                                                                         *)
(* Python objects are modelled as a heap: a task handle (OS.Task) is an    *)
(* index into `heap`, and the task list OS.__tasks is a sequence of        *)
(* handles.  The dispatch pass (OS.__execute_tasks) is modelled one list   *)
(* element at a time, because the callables it invokes are user code that  *)
(* re-enters the scheduler (enqueue, active, add_task, remove_task, stop). *)
(* None is the empty sequence, a value x that may be None is <<x>>.        *)
(***************************************************************************)
EXTENDS Integers, Sequences, FiniteSets, TLC

\* ---------------------------------------------------------------- bounds
MaxHandles == 5        \* OS.Task objects created over a run
MaxTasks == 2          \* tasks registered in a run whose user code makes calls
MaxTicks == 3          \* iterations of the run loop
MaxCalls == 2          \* API calls of user code, add_task of a new task aside
MaxHandlers == 2       \* message handlers registered
MaxWaitPolls == 2      \* polls of one wait for the touch to end
MaxBmCalls == 5        \* calls and settings made on a BacklightManager
MaxWakeTicks == 4      \* iterations of the run loop around a wake of the display
MaxRuns == 2           \* calls of run()
MaxWmCalls == 4        \* calls made on a WindowManager
MaxOptions == 3        \* options of a RadioButton
MaxRadioOps == 5       \* constructions, calls and touch readings of a RadioButton

\* ------------------------------------------------------------- constants
TicksPeriod == 1073741824        \* time.ticks_us() wraps at 2^30
DefaultDimTimeout == 30
DefaultSleepTimeout == 600
DefaultOnBrightness == 100       \* BrightnessSettings, in hundredths
DefaultDimBrightness == 30
DefaultSleepBrightness == 0
WaitSleepMs == 5
MSG_DEBUG == 0
MSG_INFO == 1
MSG_FATAL == 3

\* The counter value at which the modelled run starts: shortly before the
\* wrap, so that a run crosses it.
StartUs == TicksPeriod - 150000

\* Time that passes between two ticks of the run loop, in microseconds.
Steps == {0, 100000}

\* The callables that are registered: a plain function and an async one.
Fns == {"fn", "coro"}
ListFns == {"fn", "fn2"}
IsAsync(f) == f = "coro"

\* execution_frequency arguments of add_task (Hz); None is "omitted".
None == <<>>
Some(x) == <<x>>
Val(o) == o[1]

\* The add_task calls that are made: the arguments the tests and the
\* window manager (src/src/tmos_ui.py) pass.
Args(fn, index, f, tfe, active) ==
    [fn |-> fn, index |-> index, execution_frequency |-> f,
     touch_forces_execution |-> tfe, active |-> active]
\* The task every population may have beside another one: the window
\* manager's, first in the list and run on every tick.
Companion == Args("fn", 0, None, TRUE, TRUE)
IsCompanion(task) == task.fn = "fn" /\ task.execution_interval_us = Some(-1)

TaskArgs ==
    { Args("fn", -1, Some(5), TRUE, TRUE),
      Args("fn", -1, Some(5), FALSE, TRUE),
      Args("fn", -1, Some(0), TRUE, TRUE),
      Args("fn", -1, Some(0), FALSE, TRUE),
      Companion,
      Args("coro", -1, Some(5), TRUE, TRUE),
      Args("fn", -1, Some(5), TRUE, FALSE),
      Args("fn", -1, Some(-1), TRUE, TRUE) }

Handles == 1..MaxHandles

VARIABLES
    heap,                     \* handle -> OS.Task fields
    nalloc,                   \* number of OS.Task objects constructed
    tasks,                    \* OS.__tasks
    running,                  \* OS.__running
    touch_was_active,         \* OS.__touch_was_active
    touch_state,              \* presto.touch.state
    bm,                       \* the BacklightManager's fields
    real_us,                  \* the microsecond clock, unwrapped
    pc,                       \* where the program is
    pass,                     \* locals of the running __execute_tasks
    calls_left,               \* API calls the running user code may make
    nticks,                   \* ticks of the run loop so far
    last_call,                \* observation: the last API call and its result
    obs,                      \* observation: per-handle invocation history
    pass_log,                 \* observation: visits of the current pass
    message_handlers,         \* OS.__message_handlers
    run_log,                  \* observation: what the run did to its surroundings
    bm_log,                   \* observation: the last call on the BacklightManager
    wm,                       \* the WindowManager's fields and its pages' flags
    radio                     \* a RadioButton and its option buttons

vars == <<heap, nalloc, tasks, running, touch_was_active, touch_state, bm,
          real_us, pc, pass, calls_left, nticks, last_call, obs, pass_log,
          message_handlers, run_log, bm_log, wm, radio>>

\* ------------------------------------------------------------ OS.Task
NoTask == [fn |-> "none", execution_interval_us |-> None,
           last_execution_us |-> None, touch_forces_execution |-> FALSE,
           active |-> FALSE, current_invocation |-> FALSE]

\* OS.Task.__init__
NewTask(fn, execution_interval_us, touch_forces_execution, active) ==
    [fn |-> fn, execution_interval_us |-> execution_interval_us,
     last_execution_us |-> None,
     touch_forces_execution |-> touch_forces_execution,
     active |-> active, current_invocation |-> FALSE]

\* enqueue that stores a time of 0 for "never run" rather than None
enqueue_zero(task) == [task EXCEPT !.last_execution_us = Some(0)]

\* OS.Task.enqueue
enqueue(task) == [task EXCEPT !.last_execution_us = None]

\* an active setter that stores the flag and nothing else
set_active_only(task, is_active) == [task EXCEPT !.active = is_active]

\* OS.Task.active (setter)
set_active(task, is_active) ==
    IF task.active = is_active
    THEN task
    ELSE enqueue([task EXCEPT !.active = is_active])

\* ------------------------------------------------------------ helpers
\* time.ticks_us()
ticks_us(real) == real % TicksPeriod

\* a difference taken by plain subtraction of the two counter values
ticks_diff_raw(a, b) == a - b

\* time.ticks_diff(a, b): the signed difference of two wrapped counters
ticks_diff(a, b) ==
    ((a - b + (TicksPeriod \div 2)) % TicksPeriod) - (TicksPeriod \div 2)

\* time.time(): whole seconds of the same clock
time_s(real) == real \div 1000000

\* list.insert(index, x) for index >= 0
list_insert(l, index, x) ==
    LET k == IF index > Len(l) THEN Len(l) ELSE index
    IN SubSeq(l, 1, k) \o <<x>> \o SubSeq(l, k + 1, Len(l))

\* list.remove(x): the list without the first occurrence of x (the case
\* of an x that is not in l, where list.remove raises, is remove_raises)
RECURSIVE list_remove(_, _)
list_remove(l, x) ==
    IF l = <<>> THEN <<>>
    ELSE IF Head(l) = x THEN Tail(l)
    ELSE <<Head(l)>> \o list_remove(Tail(l), x)

InList(l, x) == \E i \in 1..Len(l) : l[i] = x

\* a filter that drops the first task of the function only
RECURSIVE filter_first(_, _, _)
filter_first(l, h, fn) ==
    IF l = <<>> THEN <<>>
    ELSE IF h[Head(l)].fn = fn THEN Tail(l)
    ELSE <<Head(l)>> \o filter_first(Tail(l), h, fn)

\* [t for t in tasks if t.fn is not fn]
RECURSIVE filter_fn(_, _, _)
filter_fn(l, h, fn) ==
    IF l = <<>> THEN <<>>
    ELSE (IF h[Head(l)].fn # fn THEN <<Head(l)>> ELSE <<>>)
         \o filter_fn(Tail(l), h, fn)

\* add_task without the check of execution_frequency
frequency_unchecked(execution_frequency) == FALSE

\* OS.add_task: the check of execution_frequency
frequency_invalid(execution_frequency) ==
    execution_frequency # None /\ Val(execution_frequency) < 0

\* a // b of Python, which rounds towards minus infinity (a > 0, b # 0)
floor_div(a, b) == IF b > 0 THEN a \div b ELSE -((a + (-b) - 1) \div (-b))

\* round(a / b) of Python for a, b > 0: to the nearest integer, a half to
\* the even one
round_div(a, b) ==
    LET q == a \div b
        r == a % b
    IN IF 2 * r < b THEN q
       ELSE IF 2 * r > b THEN q + 1
       ELSE IF q % 2 = 0 THEN q ELSE q + 1

\* an add_task that rounds the interval to the nearest microsecond
execution_interval_rounded(execution_frequency) ==
    IF execution_frequency = None THEN Some(-1)
    ELSE IF Val(execution_frequency) = 0 THEN None
    ELSE Some(round_div(1000000, Val(execution_frequency)))

\* OS.add_task: execution_interval_us for an execution_frequency that
\* passed the check
execution_interval(execution_frequency) ==
    IF execution_frequency = None THEN Some(-1)
    ELSE IF Val(execution_frequency) = 0 THEN None
    ELSE Some(floor_div(1000000, Val(execution_frequency)))

\* add_task that tests the truth of index rather than its sign
add_to_list_falsy(l, index, h) ==
    IF index <= 0 THEN Append(l, h) ELSE list_insert(l, index, h)

\* OS.add_task: where the new task goes in the list
add_to_list(l, index, h) ==
    IF index < 0 THEN Append(l, h) ELSE list_insert(l, index, h)

\* a pass that looks at the touch of this tick only
considered_active_now(state, was_active) == state

\* OS.__execute_tasks: touch_considered_active
considered_active(state, was_active) == state \/ was_active

\* __task_should_run without the test of current_invocation
task_should_run_reentrant(task, time_now_us, touch_active) ==
    IF ~task.active THEN FALSE
    ELSE IF touch_active /\ task.touch_forces_execution THEN TRUE
    ELSE IF task.last_execution_us = None THEN TRUE
    ELSE IF task.execution_interval_us = None THEN FALSE
    ELSE ticks_diff(time_now_us, Val(task.last_execution_us))
            >= Val(task.execution_interval_us)

\* __task_should_run that takes the interval for milliseconds
task_should_run_ms(task, time_now_us, touch_active) ==
    IF ~task.active THEN FALSE
    ELSE IF task.current_invocation THEN FALSE
    ELSE IF touch_active /\ task.touch_forces_execution THEN TRUE
    ELSE IF task.last_execution_us = None THEN TRUE
    ELSE IF task.execution_interval_us = None THEN FALSE
    ELSE ticks_diff(time_now_us, Val(task.last_execution_us)) * 1000
            >= Val(task.execution_interval_us)

\* __task_should_run that tests the touch after the interval
task_should_run_touch_last(task, time_now_us, touch_active) ==
    IF ~task.active THEN FALSE
    ELSE IF task.current_invocation THEN FALSE
    ELSE IF task.last_execution_us = None THEN TRUE
    ELSE IF task.execution_interval_us = None THEN FALSE
    ELSE IF touch_active /\ task.touch_forces_execution THEN TRUE
    ELSE ticks_diff(time_now_us, Val(task.last_execution_us))
            >= Val(task.execution_interval_us)

\* __task_should_run that lets the touch force every task
task_should_run_any_touch(task, time_now_us, touch_active) ==
    IF ~task.active THEN FALSE
    ELSE IF task.current_invocation THEN FALSE
    ELSE IF touch_active THEN TRUE
    ELSE IF task.last_execution_us = None THEN TRUE
    ELSE IF task.execution_interval_us = None THEN FALSE
    ELSE ticks_diff(time_now_us, Val(task.last_execution_us))
            >= Val(task.execution_interval_us)

\* __task_should_run that tests the interval before last_execution_us
task_should_run_interval_first(task, time_now_us, touch_active) ==
    IF ~task.active THEN FALSE
    ELSE IF task.current_invocation THEN FALSE
    ELSE IF touch_active /\ task.touch_forces_execution THEN TRUE
    ELSE IF task.execution_interval_us = None THEN FALSE
    ELSE IF task.last_execution_us = None THEN TRUE
    ELSE ticks_diff(time_now_us, Val(task.last_execution_us))
            >= Val(task.execution_interval_us)

\* __task_should_run that takes an interval of None for "always"
task_should_run_none_always(task, time_now_us, touch_active) ==
    IF ~task.active THEN FALSE
    ELSE IF task.current_invocation THEN FALSE
    ELSE IF touch_active /\ task.touch_forces_execution THEN TRUE
    ELSE IF task.last_execution_us = None THEN TRUE
    ELSE IF task.execution_interval_us = None THEN TRUE
    ELSE ticks_diff(time_now_us, Val(task.last_execution_us))
            >= Val(task.execution_interval_us)

\* __task_should_run that takes a negative interval for "never"
task_should_run_negative_never(task, time_now_us, touch_active) ==
    IF ~task.active THEN FALSE
    ELSE IF task.current_invocation THEN FALSE
    ELSE IF touch_active /\ task.touch_forces_execution THEN TRUE
    ELSE IF task.last_execution_us = None THEN TRUE
    ELSE IF task.execution_interval_us = None THEN FALSE
    ELSE IF Val(task.execution_interval_us) < 0 THEN FALSE
    ELSE ticks_diff(time_now_us, Val(task.last_execution_us))
            >= Val(task.execution_interval_us)

\* OS.__task_should_run
task_should_run(task, time_now_us, touch_active) ==
    IF ~task.active THEN FALSE
    ELSE IF task.current_invocation THEN FALSE
    ELSE IF touch_active /\ task.touch_forces_execution THEN TRUE
    ELSE IF task.last_execution_us = None THEN TRUE
    ELSE IF task.execution_interval_us = None THEN FALSE
    ELSE ticks_diff(time_now_us, Val(task.last_execution_us))
            >= Val(task.execution_interval_us)

\* ------------------------------------------------------ BacklightManager
\* a next state that leaves a phase when its timeout is reached
next_display_state_inclusive(time_now_s, last_interaction_s, timeouts) ==
    LET delta_s == time_now_s - last_interaction_s
    IN IF timeouts.sleep # 0 /\ delta_s >= timeouts.sleep THEN "sleep"
       ELSE IF timeouts.dim # 0 /\ delta_s >= timeouts.dim THEN "dim"
       ELSE "on"

\* a next state that tests the timeout of dim first
next_display_state_dim_first(time_now_s, last_interaction_s, timeouts) ==
    LET delta_s == time_now_s - last_interaction_s
    IN IF timeouts.dim # 0 /\ delta_s > timeouts.dim THEN "dim"
       ELSE IF timeouts.sleep # 0 /\ delta_s > timeouts.sleep THEN "sleep"
       ELSE "on"

\* a next state that takes a timeout of 0 as a timeout like any other
next_display_state_zero_enabled(time_now_s, last_interaction_s, timeouts) ==
    LET delta_s == time_now_s - last_interaction_s
    IN IF delta_s > timeouts.sleep THEN "sleep"
       ELSE IF delta_s > timeouts.dim THEN "dim"
       ELSE "on"

\* BacklightManager.__next_display_state
next_display_state(time_now_s, last_interaction_s, timeouts) ==
    LET delta_s == time_now_s - last_interaction_s
    IN IF timeouts.sleep # 0 /\ delta_s > timeouts.sleep THEN "sleep"
       ELSE IF timeouts.dim # 0 /\ delta_s > timeouts.dim THEN "dim"
       ELSE "on"

\* DisplayPhaseSetting.for_phase
for_phase(setting, phase) == setting[phase]

\* int(v * brightness) for a channel v >= 0 and a brightness given in
\* hundredths
scale(v, brightness) == (v * brightness) \div 100

\* a set_glow_leds that scales the colour the LEDs show already
set_glow_leds_compounding(b, rgb) ==
    LET shown == IF b.presto.led_rgb = None THEN rgb
                 ELSE Val(b.presto.led_rgb)
        out == IF b.display_phase # None /\ b.display_phase_controls_glow_leds
               THEN [i \in 1..3 |->
                       scale(shown[i], for_phase(b.glow_led_brighnesses,
                                                 Val(b.display_phase)))]
               ELSE rgb
    IN [bm |-> [b EXCEPT !.requested_glow_led_rgb = Some(rgb),
                         !.presto.led_rgb = Some(out)],
        writes |-> <<[op |-> "set_led_rgb", value |-> out]>>]

\* BacklightManager.set_glow_leds: the fields afterwards and the writes
\* to the hardware (one for the seven LEDs, which get the same colour)
set_glow_leds(b, rgb) ==
    LET out == IF b.display_phase # None /\ b.display_phase_controls_glow_leds
               THEN [i \in 1..3 |->
                       scale(rgb[i], for_phase(b.glow_led_brighnesses,
                                               Val(b.display_phase)))]
               ELSE rgb
    IN [bm |-> [b EXCEPT !.requested_glow_led_rgb = Some(rgb),
                         !.presto.led_rgb = Some(out)],
        writes |-> <<[op |-> "set_led_rgb", value |-> out]>>]

\* an update that writes to the hardware on every call
phase_always_changed(new_phase, display_phase) == FALSE

\* BacklightManager.update_display_phase: new_phase == self.display_phase
phase_unchanged(new_phase, display_phase) == new_phase = display_phase

\* an update whose first call counts as a change
initial_update_counts(in_initial_update) == TRUE

\* BacklightManager.update_display_phase: the value returned by a call
\* that changed the phase
initial_update_result(in_initial_update) == ~in_initial_update

\* an update that writes the display brightness of the phase on every
\* call, changed or not
update_display_phase_repushes(b, time_now_s, last_interaction_s) ==
    LET new_phase == next_display_state(time_now_s, last_interaction_s,
                                        b.display_timeouts)
        level == for_phase(b.display_brightnesses, new_phase)
    IN [bm |-> [b EXCEPT !.display_phase = Some(new_phase),
                         !.presto.backlight = Some(level)],
        changed |-> b.display_phase # None
                    /\ b.display_phase # Some(new_phase),
        writes |-> <<[op |-> "set_backlight", value |-> level]>>]

\* BacklightManager.update_display_phase: the fields afterwards, the
\* value returned and the writes to the hardware
update_display_phase(b, time_now_s, last_interaction_s) ==
    LET in_initial_update == b.display_phase = None
        new_phase == next_display_state(time_now_s, last_interaction_s,
                                        b.display_timeouts)
    IN IF phase_unchanged(Some(new_phase), b.display_phase)
       THEN [bm |-> b, changed |-> FALSE, writes |-> <<>>]
       ELSE LET level == for_phase(b.display_brightnesses, new_phase)
                b1 == [b EXCEPT !.display_phase = Some(new_phase),
                                !.presto.backlight = Some(level)]
                leds == IF b.display_phase_controls_glow_leds
                           /\ b.requested_glow_led_rgb # None
                        THEN set_glow_leds(b1, Val(b.requested_glow_led_rgb))
                        ELSE [bm |-> b1, writes |-> <<>>]
            IN [bm |-> leds.bm,
                changed |-> initial_update_result(in_initial_update),
                writes |-> <<[op |-> "set_backlight", value |-> level]>>
                           \o leds.writes]

\* a tick that takes the time of the first tick as the last interaction
\* and does not look at the touch after that
backlight_tick_ignores_touch(b, time_now_s, touch) ==
    LET li == IF b.last_interaction_s = None
              THEN Some(time_now_s) ELSE b.last_interaction_s
        u == update_display_phase([b EXCEPT !.last_interaction_s = li],
                                  time_now_s, Val(li))
    IN [bm |-> u.bm,
        changed |-> u.changed,
        writes |-> u.writes,
        touch |-> IF u.changed /\ b.display_wake_consumes_touch
                  THEN FALSE ELSE touch]

\* a tick that waits for the touch to end after every change of phase,
\* whatever display_wake_consumes_touch says
backlight_tick_always_consumes(b, time_now_s, touch) ==
    LET li == IF b.last_interaction_s = None \/ touch
              THEN Some(time_now_s) ELSE b.last_interaction_s
        u == update_display_phase([b EXCEPT !.last_interaction_s = li],
                                  time_now_s, Val(li))
    IN [bm |-> u.bm,
        changed |-> u.changed,
        writes |-> u.writes,
        touch |-> IF u.changed THEN FALSE ELSE touch]

\* BacklightManager.tick: the fields and presto.touch.state afterwards.
\* The wait loop ends when a poll reads the touch as released.
backlight_tick(b, time_now_s, touch) ==
    LET li == IF b.last_interaction_s = None \/ touch
              THEN Some(time_now_s) ELSE b.last_interaction_s
        u == update_display_phase([b EXCEPT !.last_interaction_s = li],
                                  time_now_s, Val(li))
    IN [bm |-> u.bm,
        changed |-> u.changed,
        writes |-> u.writes,
        touch |-> IF u.changed /\ b.display_wake_consumes_touch
                  THEN FALSE ELSE touch]

\* BacklightManager.BrightnessSettings, in hundredths
DefaultBrightnesses ==
    [on |-> DefaultOnBrightness, dim |-> DefaultDimBrightness,
     sleep |-> DefaultSleepBrightness]

\* ------------------------------------------------------------ observation
\* The last call on the BacklightManager: its name and arguments, the
\* value update_display_phase returned in it, its writes to the hardware,
\* its polls of the touch, the fields before it, the name and arguments
\* of the call before it, the colour last passed to set_glow_leds, and the
\* number of calls and settings made so far.
NoBmLog == [op |-> "none", now |-> 0, last |-> 0, touch |-> FALSE,
            changed |-> FALSE, writes |-> <<>>, polls |-> 0,
            before |-> None, prev |-> <<"none", 0, 0>>, raw |-> None,
            n |-> 0]

\* Per handle, what happened to it since its last invocation began:
\* the real time of that invocation, whether enqueue() or a change of
\* active was applied (dirty), whether it was made active from inactive
\* (woken), who called enqueue() on it (enq), and the number of its
\* coroutines that were started and have not finished (out); and over
\* the whole run whether a coroutine of it raised (failed) and the number
\* of ticks when it was removed from the list (gone).
NoObs == [at |-> None, dirty |-> FALSE, woken |-> FALSE, enq |-> "no",
          out |-> 0, failed |-> FALSE, gone |-> None]

\* an invocation of the task begins at real time t
Invoked(o, t, async) ==
    [o EXCEPT !.at = Some(t), !.dirty = FALSE, !.woken = FALSE,
              !.enq = "no", !.out = IF async THEN o.out + 1 ELSE o.out]

\* enqueue() was called on the task, by its own body or by other code
Enqueued(o, self) ==
    [o EXCEPT !.dirty = TRUE, !.enq = IF self THEN "self" ELSE "other"]

\* active was assigned: was is the value before, is the value assigned
Activated(o, was, is) ==
    IF was = is THEN o
    ELSE [o EXCEPT !.dirty = TRUE, !.woken = is]

\* One visit of the for loop: the handle, its fields before the visit,
\* whether it was dispatched, the real time since its last invocation
\* and whether enqueue() or a change of active came in between.
Visit(h, task, o, ran, t) ==
    [h |-> h, pre |-> task, ran |-> ran,
     gap |-> IF o.at = None THEN None ELSE Some(t - Val(o.at)),
     dirty |-> o.dirty, woken |-> o.woken, enq |-> o.enq, out |-> o.out,
     failed |-> o.failed, gone |-> o.gone]

NoPass == [time_us |-> 0, time_now_s |-> 0,
           touch_considered_active |-> FALSE,
           iter |-> <<>>, alias |-> TRUE, idx |-> 0, cur |-> 0,
           sampled |-> FALSE, prev_sampled |-> FALSE, list_changed |-> FALSE]

\* The last add_task or remove_task call, or assignment of active: its
\* arguments, its result, and the task list before it.
NoCall == [op |-> "none", arg |-> None, index |-> 0, h |-> 0,
           result |-> "ok", before |-> <<>>]

Call(op, arg, index, h, result, before) ==
    [op |-> op, arg |-> arg, index |-> index, h |-> h, result |-> result,
     before |-> before]

\* What the surroundings saw of the run: the number of touch.poll()
\* calls, the steps of the last tick, the handler calls of the last
\* post_message and what it was given to post, the number of ticks and of
\* visits of the pass when stop() was called, the error that left run(), the errors of
\* coroutines left with the event loop, and whether the backlight manager
\* waited for the touch to end in the last tick, and in how many ticks,
\* whether the phase update of the last tick reported a change, what
\* the poll of OS.__tick read in the last tick, whether the backlight
\* manager waited for the touch to end in the tick before the last, the
\* number of run() calls, the number of ticks when the last one began,
\* whether stop() was called outside a run since the last run, and
\* whether it had been when the last run began.  The stop() recorded is
\* one called during the last run.
NoLog == [polls |-> 0, trace |-> <<>>, posted |-> <<>>, post |-> None,
          stop_tick |-> None,
          stop_visits |-> 0, escaped |-> None, loop_errors |-> 0,
          woke |-> FALSE, wakes |-> 0, changed |-> FALSE,
          polled |-> FALSE, prev_woke |-> FALSE,
          runs |-> 0, run_tick |-> 0, idle_stop |-> FALSE,
          after_stop |-> FALSE]

\* ------------------------------------------------------ WindowManager
\* The pages there are: A is a Page, B a StaticPage
Pages == {"A", "B"}

\* Page.execution_frequency, StaticPage.execution_frequency
PageFrequency(p) == IF p = "B" THEN Some(0) ELSE None

\* lambda: self.__tick_page(page), the function of the task of a page
PageFn(p) == IF p = "A" THEN "tick_page_A" ELSE "tick_page_B"

PageFns == { PageFn(p) : p \in Pages }

PageOfFn(fn) == CHOOSE p \in Pages : PageFn(p) = fn

\* The class attributes of WindowManager and of Page: no page, no current
\* and no last page, __pages_need_setup True, needs_update False, the
\* systray hidden (the default of the constructor); page_tasks holds the
\* handle of the task of a page, 0 for a page without entry.  As
\* observation: the last operation on the window manager (a call or its
\* tick), its argument and result, the number of calls so far, whether a
\* call has raised, whether a call has changed the current page since the
\* last tick of the window manager (changed) and had done so before that
\* tick (after_change), the pages whose flag the last tick of the window
\* manager cleared, and per page whether its flag was cleared since the
\* page was last ticked.
NoWm ==
    [created |-> FALSE, pages |-> <<>>, page_tasks |-> [p \in Pages |-> 0],
     current_page |-> None, last_page |-> None, pages_need_setup |-> TRUE,
     needs_update |-> [p \in Pages |-> FALSE],
     tick_task |-> 0, systray_task |-> 0, systray_visible |-> FALSE,
     op |-> "none", arg |-> None, result |-> "ok", n |-> 0,
     raised |-> FALSE, changed |-> FALSE, after_change |-> FALSE,
     cleared |-> {},
     requested |-> [p \in Pages |-> FALSE]]

\* ------------------------------------------------------ RadioButton
\* The class attributes of RadioButton and of its buttons: _current_index
\* -1, and per option __is_down False and _last_touch_was_active_inside
\* None.  As observation: whether the index given to the constructor was
\* in range, the last operation and its result, the number of operations,
\* the index before the last operation, the arguments of the calls of
\* on_current_index_changed it made, and the options over which it saw a
\* touch released.
NoRadio ==
    [constructed |-> FALSE, options |-> 0, current_index |-> -1,
     is_down |-> <<>>, last |-> <<>>,
     valid |-> FALSE, op |-> "none", result |-> "ok", n |-> 0,
     prev |-> -1, changed |-> <<>>, released |-> {}]

\* the option indexes of the radio button r
Options(r) == 0..(r.options - 1)

RECURSIVE button_set_is_down(_, _, _, _)
RECURSIVE set_current_index(_, _)

\* an on_button_up that lets the current option be turned off
on_button_up_allows_off(r, i) == r

\* RadioButton._create_option_control: disallow_off_if_current
on_button_up(r, i) ==
    IF i = r.current_index THEN button_set_is_down(r, i, TRUE, FALSE) ELSE r

\* RadioButton._create_option_control: lambda: self.set_current_index(index)
on_button_down(r, i) == set_current_index(r, i)

\* _Button.set_is_down of the button of option i
button_set_is_down(r, i, is_down, emit) ==
    IF r.is_down[i] = is_down THEN r
    ELSE LET r1 == [r EXCEPT !.is_down[i] = is_down]
         IN IF ~emit THEN r1
            ELSE IF is_down THEN on_button_down(r1, i)
            ELSE on_button_up(r1, i)

\* RadioButton.set_current_index: the for loop over the controls from i on
RECURSIVE set_controls(_, _, _)
set_controls(r, i, index) ==
    IF i >= r.options THEN r
    ELSE set_controls(button_set_is_down(r, i, i = index, TRUE), i + 1, index)

\* RadioButton.set_current_index; the callback is there once the
\* constructor has returned
set_current_index(r, index) ==
    IF index = r.current_index THEN r
    ELSE IF index < 0 \/ index >= r.options
    THEN [r EXCEPT !.result = "ValueError"]
    ELSE LET r1 == set_controls([r EXCEPT !.current_index = index], 0, index)
         IN IF r.constructed THEN [r1 EXCEPT !.changed = Append(@, index)]
            ELSE r1

\* LatchingButton.process_touch_state of the button of option i, for a
\* touch with the given state at a place inside option pos (or outside
\* every option)
button_process_touch_state(r, i, state, pos) ==
    LET touch_active_inside == state /\ pos = i
        touch_was_inside == r.last[i]
    IN IF Some(touch_active_inside) = touch_was_inside THEN r
       ELSE LET r1 == [r EXCEPT !.last[i] = Some(touch_active_inside)]
            IN IF touch_was_inside = Some(TRUE) /\ ~state
               THEN button_set_is_down(r1, i, ~r1.is_down[i], TRUE)
               ELSE r1

\* RadioButton.process_touch_state: the for loop over the controls
RECURSIVE process_touch_state(_, _, _, _)
process_touch_state(r, i, state, pos) ==
    IF i >= r.options THEN r
    ELSE process_touch_state(button_process_touch_state(r, i, state, pos),
                             i + 1, state, pos)

\* ------------------------------------------------------------ messages
\* The ways a message handler behaves when it is called
HandlerKinds == {"returns", "raises"}

\* the text of the error a task raises
TaskError == "task error"

\* a post_message without the try: the exception of a handler ends the
\* delivery
RECURSIVE deliver_unguarded(_, _, _, _)
deliver_unguarded(handlers, i, msg, severity) ==
    IF i > Len(handlers) THEN <<>>
    ELSE <<[handler |-> i, msg |-> msg, severity |-> severity,
            printed |-> FALSE]>>
         \o (IF handlers[i] = "raises" THEN <<>>
             ELSE deliver_unguarded(handlers, i + 1, msg, severity))

\* OS.post_message: the handler calls it makes, from handler i on.  An
\* exception of a handler is caught and the next handler is called.
RECURSIVE deliver(_, _, _, _)
deliver(handlers, i, msg, severity) ==
    IF i > Len(handlers) THEN <<>>
    ELSE <<[handler |-> i, msg |-> msg, severity |-> severity,
            printed |-> handlers[i] = "raises"]>>
         \o deliver(handlers, i + 1, msg, severity)

\* OS.post_message
post_message(handlers, msg, severity) == deliver(handlers, 1, msg, severity)

\* The message handed to post_message and the handlers registered then,
\* kept when there is a handler to call
Posting(msg, severity) ==
    IF message_handlers = <<>> THEN None
    ELSE Some([msg |-> msg, severity |-> severity,
               handlers |-> message_handlers])

\* self.post_message(msg, severity) as a statement of a method
Posted(msg, severity) ==
    [run_log EXCEPT
        !.posted = post_message(message_handlers, msg, severity),
        !.post = Posting(msg, severity)]

\* an except clause that posts the error and does not raise it again
run_async_except_swallowed(handlers, ex) ==
    [posted |-> post_message(handlers, ex, MSG_FATAL), escaped |-> None]

\* OS.run_async, the except clause: the error is posted and raised again
run_async_except(handlers, ex) ==
    [posted |-> post_message(handlers, ex, MSG_FATAL), escaped |-> Some(ex)]

\* ------------------------------------------------------------ Init
Init ==
    /\ heap = [h \in Handles |-> NoTask]
    /\ nalloc = 0
    /\ tasks = <<>>
    /\ running = FALSE
    /\ touch_was_active = FALSE
    /\ touch_state = FALSE
    /\ bm = [display_phase |-> None,
             last_interaction_s |-> None,
             display_wake_consumes_touch |-> TRUE,
             display_phase_controls_glow_leds |-> TRUE,
             display_timeouts |-> [dim |-> DefaultDimTimeout,
                                   sleep |-> DefaultSleepTimeout],
             display_brightnesses |-> DefaultBrightnesses,
             glow_led_brighnesses |-> DefaultBrightnesses,
             requested_glow_led_rgb |-> None,
             presto |-> [backlight |-> None, led_rgb |-> None]]
    /\ bm_log = NoBmLog
    /\ wm = NoWm
    /\ radio = NoRadio
    /\ real_us = StartUs
    /\ pc = "setup"
    /\ pass = NoPass
    /\ calls_left = MaxCalls
    /\ nticks = 0
    /\ last_call = NoCall
    /\ obs = [h \in Handles |-> NoObs]
    /\ pass_log = <<>>
    /\ message_handlers = <<>>
    /\ run_log = NoLog

\* ------------------------------------------------------------ user code
\* User code runs before run(), inside the body of a dispatched function,
\* and inside a started coroutine while the pass yields.
InPass == pc \in {"pass", "body", "yield"}

InUserCode ==
    \/ pc \in {"setup", "body"}
    \/ pc = "yield" /\ \E h \in Handles : obs[h].out > 0

UserCode == InUserCode /\ pc # "setup" /\ calls_left > 0

\* the list self.__tasks is changed in place: a running pass iterates it
InPlace(newtasks) ==
    /\ tasks' = newtasks
    /\ pass' = IF InPass
               THEN [pass EXCEPT
                       !.iter = IF pass.alias THEN newtasks ELSE @,
                       !.list_changed = @ \/ newtasks # tasks]
               ELSE pass

\* self.__tasks is bound to a new list: a running pass keeps the old one
Rebind(newtasks) ==
    /\ tasks' = newtasks
    /\ pass' = IF InPass
               THEN [pass EXCEPT !.alias = FALSE,
                                 !.list_changed = @ \/ newtasks # tasks]
               ELSE pass

\* OS.add_task
AddTask(fn, index, execution_frequency, touch_forces_execution, active) ==
    /\ InUserCode
    /\ IF frequency_invalid(execution_frequency)
       THEN /\ last_call.result = "ok"
            /\ UNCHANGED calls_left
            /\ last_call' = Call("add_task", execution_frequency, index, 0,
                                 "ValueError", tasks)
            /\ UNCHANGED <<heap, nalloc, tasks, pass, run_log>>
       ELSE /\ nalloc < MaxHandles
            /\ UNCHANGED calls_left
            /\ LET h == nalloc + 1 IN
                 /\ heap' = [heap EXCEPT ![h] =
                                NewTask(fn, execution_interval(execution_frequency),
                                        touch_forces_execution, active)]
                 /\ nalloc' = h
                 /\ InPlace(add_to_list(tasks, index, h))
                 /\ last_call' = Call("add_task", execution_frequency, index,
                                      h, "ok", tasks)
                 /\ run_log' = Posted("Added task", MSG_DEBUG)
    /\ UNCHANGED <<running, touch_was_active, touch_state, bm, real_us, pc,
                   nticks, obs, pass_log, message_handlers, bm_log, wm, radio>>

\* a list.remove that ignores an x that is not in the list
remove_never_raises(l, x) == FALSE

\* list.remove(x) raises ValueError when x is not in the list
remove_raises(l, x) == ~InList(l, x)

\* OS.remove_task, given a task handle or a callable.  list.remove
\* raises ValueError in the caller for a handle that is not in the list,
\* before anything is changed or posted.
RemoveTask(byhandle, h, fn) ==
    /\ UserCode
    /\ calls_left' = calls_left - 1
    /\ IF byhandle
       THEN /\ h \in 1..nalloc
            /\ IF remove_raises(tasks, h)
               THEN /\ last_call' = Call("remove_task", None, 0, h,
                                         "ValueError", tasks)
                    /\ UNCHANGED <<tasks, pass, run_log, obs>>
               ELSE /\ InPlace(list_remove(tasks, h))
                    /\ last_call' = Call("remove_task", None, 0, h, "ok",
                                         tasks)
                    /\ obs' = [obs EXCEPT ![h].gone = Some(nticks)]
                    /\ run_log' = Posted("Removed task", MSG_DEBUG)
       ELSE /\ h = 0
            /\ Rebind(filter_fn(tasks, heap, fn))
            /\ last_call' = Call("remove_task", Some(fn), 0, 0, "ok",
                                 tasks)
            /\ obs' = [k \in Handles |->
                         IF InList(tasks, k) /\ heap[k].fn = fn
                         THEN [obs[k] EXCEPT !.gone = Some(nticks)]
                         ELSE obs[k]]
            /\ run_log' = Posted("Removed task", MSG_DEBUG)
    /\ UNCHANGED <<heap, nalloc, running, touch_was_active, touch_state, bm,
                   real_us, pc, nticks, pass_log, message_handlers, bm_log, wm, radio>>

\* OS.add_message_handler: the call is posted to the handlers there are,
\* then the handler is appended
AddMessageHandler(kind) ==
    /\ pc = "setup"
    /\ Len(message_handlers) < MaxHandlers
    /\ run_log' = Posted("Adding message handler", MSG_DEBUG)
    /\ message_handlers' = Append(message_handlers, kind)
    /\ last_call' = NoCall
    /\ UNCHANGED <<heap, nalloc, tasks, running, touch_was_active,
                   touch_state, bm, real_us, pc, pass, calls_left, nticks,
                   obs, pass_log, bm_log, wm, radio>>

\* OS.Task.active = is_active
SetActive(h, is_active) ==
    /\ UserCode
    /\ h \in 1..nalloc
    /\ heap' = [heap EXCEPT ![h] = set_active(@, is_active)]
    /\ calls_left' = IF heap' = heap THEN calls_left ELSE calls_left - 1
    /\ obs' = [obs EXCEPT ![h] = Activated(@, heap[h].active, is_active)]
    /\ last_call' = Call("active", Some(is_active), 0, h, "ok", <<>>)
    /\ UNCHANGED <<nalloc, tasks, running, touch_was_active, touch_state, bm,
                   real_us, pc, pass, nticks, pass_log,
                   message_handlers, run_log, bm_log, wm, radio>>

\* OS.Task.enqueue()
Enqueue(h) ==
    /\ UserCode
    /\ h \in 1..nalloc
    /\ heap' = [heap EXCEPT ![h] = enqueue(@)]
    /\ calls_left' = IF heap' = heap THEN calls_left ELSE calls_left - 1
    /\ obs' = [obs EXCEPT ![h] = IF heap[h].last_execution_us = None THEN @
                                  ELSE Enqueued(@, pc = "body" /\ pass.cur = h)]
    /\ last_call' = NoCall
    /\ UNCHANGED <<nalloc, tasks, running, touch_was_active, touch_state, bm,
                   real_us, pc, pass, nticks, pass_log,
                   message_handlers, run_log, bm_log, wm, radio>>

\* a loop that goes on whatever the flag says
loop_continues_always(flag) == TRUE

\* OS.run_async: while self.__running
loop_continues(flag) == flag

\* OS.stop
Stop ==
    /\ UserCode
    /\ running
    /\ calls_left' = calls_left - 1
    /\ running' = FALSE
    /\ last_call' = NoCall
    /\ run_log' = [run_log EXCEPT !.stop_tick = Some(nticks),
                                  !.stop_visits = Len(pass_log)]
    /\ UNCHANGED <<heap, nalloc, tasks, touch_was_active, touch_state, bm,
                   real_us, pc, pass, nticks, obs, pass_log,
                   message_handlers, bm_log, wm, radio>>

\* OS.stop, called while no run is going on
StopIdle ==
    /\ pc \in {"setup", "stopped"}
    /\ ~run_log.idle_stop
    /\ running' = FALSE
    /\ run_log' = [run_log EXCEPT !.idle_stop = TRUE]
    /\ UNCHANGED <<heap, nalloc, tasks, touch_was_active, touch_state, bm,
                   real_us, pc, pass, calls_left, nticks, last_call, obs,
                   pass_log, message_handlers, bm_log, wm, radio>>

\* ------------------------------------------------------------ run loop
\* a run_async that leaves the flag as it finds it
run_async_running_kept(flag) == flag

\* OS.run_async: self.__running = True
run_async_running(flag) == TRUE

\* OS.run / OS.run_async up to the loop, called where no run is going on:
\* before the first run, or after a run has returned
RunFrom(places) ==
    /\ pc \in places
    /\ run_log.runs < MaxRuns
    /\ running' = run_async_running(running)
    /\ pc' = "loop"
    /\ last_call' = NoCall
    /\ run_log' = [Posted("Starting tasks", MSG_INFO) EXCEPT
                      !.runs = @ + 1, !.run_tick = nticks,
                      !.stop_tick = None, !.stop_visits = 0,
                      !.after_stop = run_log.idle_stop,
                      !.idle_stop = FALSE]
    /\ UNCHANGED <<heap, nalloc, tasks, touch_was_active, touch_state, bm,
                   real_us, pass, calls_left, nticks, obs, pass_log,
                   message_handlers, bm_log, wm, radio>>

\* the first run() of the program
Run == RunFrom({"setup"})

\* The values a tick works on: presto.touch.state, __touch_was_active,
\* the backlight manager, what the next poll will read (hw), the real
\* time, the clocks as read, touch_considered_active, whether the
\* backlight manager waited for the touch to end, and the steps taken.
TickState(hw, real) ==
    [touch |-> touch_state, was |-> touch_was_active, bm |-> bm, hw |-> hw,
     real |-> real, time_us |-> 0, time_now_s |-> 0, considered |-> FALSE,
     woke |-> FALSE, changed |-> FALSE, trace |-> <<>>]

\* OS.__tick: self.presto.touch.poll()
tick_poll(st) == [st EXCEPT !.touch = st.hw, !.trace = Append(@, "poll")]

\* OS.__tick: time.ticks_us(), time.time()
tick_clocks(st) ==
    [st EXCEPT !.time_us = ticks_us(st.real), !.time_now_s = time_s(st.real)]

\* a backlight manager that polls again in every tick
wait_always(changed, consumes, touch) == TRUE

\* BacklightManager.tick: the wait loop is entered
wait_for_release(changed, consumes, touch) == changed /\ consumes /\ touch

\* OS.__tick: self.backlight_manager.tick(time_now_s).  A wait loop that
\* is entered polls k times, the last poll reading the touch as released.
tick_backlight(st, k) ==
    LET b == backlight_tick(st.bm, st.time_now_s, st.touch)
        w == wait_for_release(b.changed, st.bm.display_wake_consumes_touch,
                              st.touch)
    IN [st EXCEPT !.bm = b.bm, !.touch = b.touch, !.woke = w,
                  !.changed = b.changed,
                  !.trace = @ \o (IF w THEN [i \in 1..k |-> "wait_poll"]
                                  ELSE <<>>) \o <<"backlight">>]

\* OS.__execute_tasks before the for loop: the touch is captured
tick_capture(st) ==
    [st EXCEPT !.considered = considered_active(st.touch, st.was),
               !.was = st.touch, !.trace = Append(@, "dispatch")]

\* a tick that captures the touch before the backlight manager ticks
os_tick_capture_first(st, k) ==
    tick_backlight(tick_capture(tick_clocks(tick_poll(st))), k)

\* OS.__tick up to the for loop of __execute_tasks
os_tick(st, k) ==
    tick_capture(tick_backlight(tick_clocks(tick_poll(st)), k))

\* the number of touch.poll() calls among the steps
Polls(trace) ==
    Cardinality({i \in 1..Len(trace) : trace[i] \in {"poll", "wait_poll"}})

\* OS.__tick up to the for loop of __execute_tasks: the touch is polled
\* (it reads hw), the clocks are read (d microseconds after the last
\* tick), the backlight manager ticks (a wait loop polling k times), and
\* the pass captures the touch.
TickWithin(limit, d, hw, k) ==
    /\ pc = "loop"
    /\ loop_continues(running)
    /\ nticks < limit
    /\ LET st == os_tick(TickState(hw, real_us + d), k)
       IN /\ real_us' = real_us + d
                        + (IF st.woke THEN k * WaitSleepMs * 1000 ELSE 0)
          /\ bm' = st.bm
          /\ touch_state' = st.touch
          /\ touch_was_active' = st.was
          /\ pass' = [time_us |-> st.time_us,
                      time_now_s |-> st.time_now_s,
                      touch_considered_active |-> st.considered,
                      iter |-> tasks, alias |-> TRUE, idx |-> 1, cur |-> 0,
                      sampled |-> st.touch, prev_sampled |-> pass.sampled,
                      list_changed |-> FALSE]
          /\ run_log' = [run_log EXCEPT !.polls = @ + Polls(st.trace),
                                        !.trace = st.trace,
                                        !.woke = st.woke,
                                        !.prev_woke = run_log.woke,
                                        !.changed = st.changed,
                                        !.polled = hw,
                                        !.wakes = IF st.woke THEN @ + 1
                                                  ELSE @]
    /\ pc' = "pass"
    /\ nticks' = nticks + 1
    /\ pass_log' = <<>>
    /\ UNCHANGED <<heap, nalloc, tasks, running, calls_left, last_call, obs,
                   message_handlers, bm_log, wm, radio>>

\* a tick of a run of up to MaxTicks ticks
Tick(d, hw, k) == TickWithin(MaxTicks, d, hw, k)

\* One iteration of the for loop of OS.__execute_tasks: the next element
\* of the list is tested and, when due, stamped and dispatched.  A
\* function starts to run; an async function returns its coroutine at
\* once, which OS.__dispatch wraps into a task that is now in flight.
VisitTask ==
    /\ pc = "pass"
    /\ pass.idx <= Len(pass.iter)
    /\ LET h == pass.iter[pass.idx]
           due == task_should_run(heap[h], pass.time_us,
                                  pass.touch_considered_active)
       IN /\ pass_log' = Append(pass_log,
                                Visit(h, heap[h], obs[h], due, real_us))
          /\ IF due
             THEN /\ heap' = [heap EXCEPT
                                ![h].last_execution_us = Some(pass.time_us),
                                ![h].current_invocation = IsAsync(heap[h].fn)]
                  /\ obs' = [obs EXCEPT ![h] =
                               Invoked(@, real_us, IsAsync(heap[h].fn))]
                  /\ pc' = IF IsAsync(heap[h].fn) THEN "yield" ELSE "body"
                  /\ pass' = [pass EXCEPT !.idx = @ + 1, !.cur = h]
             ELSE /\ pass' = [pass EXCEPT !.idx = @ + 1]
                  /\ UNCHANGED <<heap, obs, pc>>
    /\ UNCHANGED <<nalloc, tasks, running, touch_was_active, touch_state, bm,
                   real_us, calls_left, nticks, last_call,
                   message_handlers, run_log, bm_log, wm, radio>>

\* The dispatched function returns and __execute_tasks awaits sleep(0),
\* which lets the started coroutines run; with none started it returns
\* at once.
Return ==
    /\ pc = "body"
    /\ pc' = IF \E h \in Handles : obs[h].out > 0 THEN "yield" ELSE "pass"
    /\ pass' = [pass EXCEPT !.cur = 0]
    /\ last_call' = NoCall
    /\ UNCHANGED <<heap, nalloc, tasks, running, touch_was_active,
                   touch_state, bm, real_us, calls_left, nticks,
                   obs, pass_log, message_handlers, run_log, bm_log, wm, radio>>

\* The dispatched function raises: the error leaves __dispatch,
\* __execute_tasks and __tick, and run_async posts it and raises it again.
\* The flag __running is left as it is.
Raise ==
    /\ pc = "body"
    /\ pc' = "failed"
    /\ LET r == run_async_except(message_handlers, TaskError)
       IN run_log' = [run_log EXCEPT !.posted = r.posted,
                                     !.post = Posting(TaskError, MSG_FATAL),
                                     !.escaped = r.escaped]
    /\ UNCHANGED <<heap, nalloc, tasks, running, touch_was_active,
                   touch_state, bm, real_us, pass, calls_left, nticks,
                   last_call, obs, pass_log, message_handlers, bm_log, wm, radio>>

\* OS.__dispatch, invoke(): the awaited coroutine of task h raises.  The
\* error ends invoke() before current_invocation is reset; it ends the
\* asyncio task that nothing awaits, and is left with the event loop.
Fail(h) ==
    /\ pc = "yield"
    /\ obs[h].out > 0
    /\ obs' = [obs EXCEPT ![h].out = @ - 1, ![h].failed = TRUE]
    /\ run_log' = [run_log EXCEPT !.loop_errors = @ + 1]
    /\ UNCHANGED <<heap, nalloc, tasks, running, touch_was_active,
                   touch_state, bm, real_us, pc, pass, calls_left, nticks,
                   last_call, pass_log, message_handlers, bm_log, wm, radio>>

\* OS.__dispatch, invoke(): the awaited coroutine of task h has finished
Complete(h) ==
    /\ pc = "yield"
    /\ obs[h].out > 0
    /\ heap' = [heap EXCEPT ![h].current_invocation = FALSE]
    /\ obs' = [obs EXCEPT ![h].out = @ - 1]
    /\ UNCHANGED <<nalloc, tasks, running, touch_was_active, touch_state, bm,
                   real_us, pc, pass, calls_left, nticks, last_call, pass_log,
                   message_handlers, run_log, bm_log, wm, radio>>

\* sleep(0) returns: the for loop goes on
Resume ==
    /\ pc = "yield"
    /\ pc' = "pass"
    /\ pass' = [pass EXCEPT !.cur = 0]
    /\ last_call' = NoCall
    /\ UNCHANGED <<heap, nalloc, tasks, running, touch_was_active,
                   touch_state, bm, real_us, calls_left, nticks, obs,
                   pass_log, message_handlers, run_log, bm_log, wm, radio>>

\* the for loop of __execute_tasks ends, __tick returns
EndPass ==
    /\ pc = "pass"
    /\ pass.idx > Len(pass.iter)
    /\ pc' = "loop"
    /\ pass' = [NoPass EXCEPT !.sampled = pass.sampled]
    /\ pass_log' = <<>>
    /\ UNCHANGED <<heap, nalloc, tasks, running, touch_was_active,
                   touch_state, bm, real_us, calls_left, nticks, last_call,
                   obs, message_handlers, run_log, bm_log, wm, radio>>

\* OS.run_async: the while loop finds __running False and run() returns
Stopped ==
    /\ pc = "loop"
    /\ ~loop_continues(running)
    /\ pc' = "stopped"
    /\ run_log' = Posted("System stopped", MSG_INFO)
    /\ UNCHANGED <<heap, nalloc, tasks, running, touch_was_active,
                   touch_state, bm, real_us, pass, calls_left, nticks,
                   last_call, obs, pass_log, message_handlers, bm_log, wm, radio>>

\* Tasks are registered before run(), the task under study last and
\* behind Companion tasks only; the calls that user code makes during
\* the run, from any body, are aimed at the task registered last.
Next ==
    \/ \E a \in TaskArgs :
          /\ pc = "setup"
          /\ nalloc < MaxTasks
          /\ \A i \in 1..Len(tasks) : IsCompanion(heap[tasks[i]])
          /\ AddTask(a.fn, a.index, a.execution_frequency,
                     a.touch_forces_execution, a.active)
    \/ \E b \in BOOLEAN : SetActive(nalloc, b)
    \/ Enqueue(nalloc)
    \/ Stop
    \/ Run
    \/ \E d \in Steps, hw \in BOOLEAN : Tick(d, hw, 1)
    \/ VisitTask
    \/ Return
    \/ \E h \in Handles : Complete(h)
    \/ Resume
    \/ EndPass
    \/ Stopped

Spec == Init /\ [][Next]_vars

\* Registration of two functions at any index, the second at most once,
\* and passes over the list that results: the registered functions remove
\* tasks, by handle and by function, and make no other call; the ticks
\* come 100 ms apart and find no touch.
ListIndexes == {-2, -1, 0, 1, 5}

NextList ==
    \/ \E index \in ListIndexes, fn \in ListFns :
          /\ pc = "setup"
          /\ fn = "fn2" => \A h \in 1..nalloc : heap[h].fn # "fn2"
          /\ nalloc <= MaxTasks
          /\ AddTask(fn, index, None, TRUE, TRUE)
    \/ \E h \in Handles : RemoveTask(TRUE, h, "fn")
    \/ \E fn \in ListFns : RemoveTask(FALSE, 0, fn)
    \/ Run
    \/ Tick(100000, FALSE, 1)
    \/ VisitTask
    \/ Return
    \/ EndPass

SpecList == Init /\ [][NextList]_vars

\* Message handlers that return or raise, always-due tasks with plain and
\* async functions, and passes in which a function or a coroutine may
\* raise; the ticks find no touch.
NextErr ==
    \/ \E kind \in HandlerKinds : AddMessageHandler(kind)
    \/ \E fn \in Fns :
          /\ pc = "setup"
          /\ nalloc < MaxTasks
          /\ AddTask(fn, -1, None, TRUE, TRUE)
    \/ Run
    \/ \E d \in Steps : Tick(d, FALSE, 1)
    \/ VisitTask
    \/ Return
    \/ Raise
    \/ \E h \in Handles : Complete(h)
    \/ \E h \in Handles : Fail(h)
    \/ Resume
    \/ EndPass

SpecErr == Init /\ [][NextErr]_vars

\* BacklightManager.display_wake_consumes_touch is set
SetConsumes(b) ==
    /\ pc = "setup"
    /\ nalloc = 0
    /\ bm.display_wake_consumes_touch # b
    /\ bm' = [bm EXCEPT !.display_wake_consumes_touch = b]
    /\ UNCHANGED <<heap, nalloc, tasks, running, touch_was_active,
                   touch_state, real_us, pc, pass, calls_left, nticks,
                   last_call, obs, pass_log, message_handlers, run_log,
                   bm_log, wm, radio>>

\* Ticks that come up to 31 s apart, so that the display dims and a touch
\* wakes it, over a list of tasks that a touch forces to run.
WakeSteps == {100000, 31000000}

NextWake ==
    \/ \E b \in BOOLEAN : SetConsumes(b)
    \/ \E f \in {None, Some(0)} :
          /\ pc = "setup"
          /\ nalloc < MaxTasks
          /\ AddTask("fn", -1, f, TRUE, TRUE)
    \/ Run
    \/ \E d \in WakeSteps, hw \in BOOLEAN, k \in 1..MaxWaitPolls :
          Tick(d, hw, k)
    \/ VisitTask
    \/ Return
    \/ EndPass

SpecWake == Init /\ [][NextWake]_vars

\* Runs that follow one another: stop() is called before a run and from
\* the tasks of a run, which are a 5 Hz task and a task that runs in
\* every tick, and run() is called again after a run has returned.
NextRuns ==
    \/ \E f \in {None, Some(5)} :
          /\ pc = "setup"
          /\ nalloc < MaxTasks
          /\ AddTask("fn", -1, f, TRUE, TRUE)
    \/ StopIdle
    \/ RunFrom({"setup", "stopped"})
    \/ Stop
    \/ \E hw \in BOOLEAN : Tick(100000, hw, 1)
    \/ VisitTask
    \/ Return
    \/ EndPass
    \/ Stopped

SpecRuns == Init /\ [][NextRuns]_vars

\* A run of up to MaxWakeTicks ticks, 100 ms or 31 s apart, over tasks
\* at 1 Hz and tasks with no interval that a touch forces to run: the
\* display dims, a touch wakes it, and a tick follows the wake.
NextConsume ==
    \/ \E b \in BOOLEAN : SetConsumes(b)
    \/ \E f \in {Some(1), Some(0)} :
          /\ pc = "setup"
          /\ nalloc < MaxTasks
          /\ AddTask("fn", -1, f, TRUE, TRUE)
    \/ Run
    \/ \E d \in WakeSteps, hw \in BOOLEAN : TickWithin(MaxWakeTicks, d, hw, 1)
    \/ VisitTask
    \/ Return
    \/ EndPass

SpecConsume == Init /\ [][NextConsume]_vars

\* ------------------------------------------- BacklightManager on its own
\* A BacklightManager that other code than OS.__tick calls and sets up.
BmCall == pc = "setup" /\ bm_log.n < MaxBmCalls

BmFrame ==
    UNCHANGED <<heap, nalloc, tasks, running, touch_was_active, real_us, pc,
                pass, calls_left, nticks, last_call, obs, pass_log,
                message_handlers, run_log, wm, radio>>

BmLog(op, now, last, touch, changed, writes, polls) ==
    [op |-> op, now |-> now, last |-> last, touch |-> touch,
     changed |-> changed, writes |-> writes, polls |-> polls,
     before |-> Some(bm),
     prev |-> <<bm_log.op, bm_log.now, bm_log.last>>, raw |-> bm_log.raw,
     n |-> bm_log.n + 1]

\* BacklightManager.update_display_phase(time_now_s, last_interaction_s)
UpdateDisplayPhase(now, last) ==
    /\ BmCall
    /\ LET r == update_display_phase(bm, now, last)
       IN /\ bm' = r.bm
          /\ bm_log' = BmLog("update_display_phase", now, last, FALSE,
                             r.changed, r.writes, 0)
    /\ UNCHANGED touch_state
    /\ BmFrame

\* BacklightManager.set_glow_leds(r, g, b)
SetGlowLeds(rgb) ==
    /\ BmCall
    /\ LET r == set_glow_leds(bm, rgb)
       IN /\ bm' = r.bm
          /\ bm_log' = [BmLog("set_glow_leds", 0, 0, FALSE, FALSE,
                               r.writes, 0) EXCEPT !.raw = Some(rgb)]
    /\ UNCHANGED touch_state
    /\ BmFrame

\* BacklightManager.tick(time_now_s), with presto.touch.state as given;
\* a wait loop that is entered polls k times
BmTick(now, touch, k) ==
    /\ BmCall
    /\ LET r == backlight_tick(bm, now, touch)
           w == wait_for_release(r.changed, bm.display_wake_consumes_touch,
                                 touch)
       IN /\ bm' = r.bm
          /\ touch_state' = r.touch
          /\ bm_log' = BmLog("tick", now, 0, touch, r.changed, r.writes,
                             IF w THEN k ELSE 0)
    /\ BmFrame

\* display_timeouts.dim and display_timeouts.sleep are assigned
SetTimeouts(t) ==
    /\ BmCall
    /\ bm' = [bm EXCEPT !.display_timeouts = t]
    /\ bm_log' = BmLog("set_timeouts", 0, 0, FALSE, FALSE, <<>>, 0)
    /\ UNCHANGED touch_state
    /\ BmFrame

\* the fields of display_brightnesses are assigned
SetBrightnesses(levels) ==
    /\ BmCall
    /\ bm' = [bm EXCEPT !.display_brightnesses = levels]
    /\ bm_log' = BmLog("set_brightnesses", 0, 0, FALSE, FALSE, <<>>, 0)
    /\ UNCHANGED touch_state
    /\ BmFrame

\* the fields of glow_led_brighnesses are assigned
SetGlowBrightnesses(levels) ==
    /\ BmCall
    /\ bm' = [bm EXCEPT !.glow_led_brighnesses = levels]
    /\ bm_log' = BmLog("set_glow_brightnesses", 0, 0, FALSE, FALSE, <<>>, 0)
    /\ UNCHANGED touch_state
    /\ BmFrame

\* Timeouts in order, with a phase or both disabled, and out of order;
\* times since the last interaction around them.
Timeouts(dim, sleep) == [dim |-> dim, sleep |-> sleep]

TimeoutProfiles ==
    {Timeouts(DefaultDimTimeout, DefaultSleepTimeout), Timeouts(10, 20),
     Timeouts(0, 20), Timeouts(10, 0), Timeouts(0, 0), Timeouts(20, 10),
     Timeouts(10, 10)}

Elapsed == {0, 4, 10, 14, 20, 24, 30, 31, 600, 601}

Now == 1000

\* update_display_phase under any of the timeouts
NextPhase ==
    \/ \E t \in TimeoutProfiles : SetTimeouts(t)
    \/ \E e \in Elapsed : UpdateDisplayPhase(Now, Now - e)

SpecPhase == Init /\ [][NextPhase]_vars

\* Brightness settings, colours, and the times of ticks and updates
Levels(on, dim, sleep) == [on |-> on, dim |-> dim, sleep |-> sleep]

BrightnessProfiles == {DefaultBrightnesses, Levels(90, 50, 0)}

Colours == {<<200, 100, 10>>, <<255, 255, 255>>}

TickTimes == {Now, Now + 15, Now + 31, Now + 601}

\* ticks, updates and colours under settings that are changed meanwhile
NextLeds ==
    \/ \E levels \in BrightnessProfiles : SetBrightnesses(levels)
    \/ \E levels \in BrightnessProfiles : SetGlowBrightnesses(levels)
    \/ SetTimeouts(Timeouts(10, 20))
    \/ \E rgb \in Colours : SetGlowLeds(rgb)
    \/ \E e \in {0, 31, 601} : UpdateDisplayPhase(Now, Now - e)
    \/ \E now \in TickTimes, touch \in BOOLEAN, k \in 1..MaxWaitPolls :
          BmTick(now, touch, k)

SpecLeds == Init /\ [][NextLeds]_vars

\* Frequencies in Hz that divide a second exactly or leave a remainder
\* below or above half a microsecond
Frequencies == {1, 3, 4, 6, 7, 30, 60}

\* tasks registered with a frequency
NextFreq ==
    \E f \in Frequencies, tfe \in BOOLEAN :
        /\ nalloc <= MaxTasks
        /\ AddTask("fn", -1, Some(f), tfe, TRUE)

SpecFreq == Init /\ [][NextFreq]_vars

\* Functions that re-enter the scheduler from their bodies: they register
\* a task at the end or at the head of the list, remove a task or enqueue
\* one, while coroutines started in the pass run when it yields.
NextReenter ==
    \/ \E fn \in Fns :
          /\ pc = "setup"
          /\ nalloc < MaxTasks
          /\ AddTask(fn, -1, None, TRUE, TRUE)
    \/ \E index \in {-1, 0} :
          /\ pc = "body"
          /\ nalloc <= MaxTasks
          /\ AddTask("fn", index, None, TRUE, TRUE)
    \/ \E h \in Handles : pc = "body" /\ RemoveTask(TRUE, h, "fn")
    \/ pc = "body" /\ Enqueue(pass.cur)
    \/ Run
    \/ Tick(100000, FALSE, 1)
    \/ VisitTask
    \/ Return
    \/ \E h \in Handles : Complete(h)
    \/ Resume
    \/ EndPass

SpecReenter == Init /\ [][NextReenter]_vars

\* ------------------------------------------------------ RadioButton
RadioFrame ==
    UNCHANGED <<heap, nalloc, tasks, running, touch_was_active, touch_state,
                bm, real_us, pc, pass, calls_left, nticks, last_call, obs,
                pass_log, message_handlers, run_log, bm_log, wm>>

\* an operation op on the radio button begins
RadioOp(r, op) ==
    [r EXCEPT !.op = op, !.result = "ok", !.n = @ + 1,
              !.prev = r.current_index, !.changed = <<>>, !.released = {}]

\* RadioButton.__init__ with the given number of options: no option
\* raises ValueError, and so does an index that set_current_index
\* refuses; the object exists when the constructor returns
RadioCreate(options, current_index) ==
    /\ ~radio.constructed
    /\ radio.n < MaxRadioOps
    /\ IF options = 0
       THEN radio' = [RadioOp(radio, "init") EXCEPT !.result = "ValueError"]
       ELSE LET r0 == [RadioOp(radio, "init") EXCEPT
                          !.options = options,
                          !.is_down = [i \in 0..(options - 1) |-> FALSE],
                          !.last = [i \in 0..(options - 1) |-> None]]
                r1 == set_current_index(r0, current_index)
            IN radio' = IF r1.result = "ok"
                        THEN [r1 EXCEPT
                                !.constructed = TRUE,
                                !.valid = current_index \in 0..(options - 1)]
                        ELSE [RadioOp(radio, "init") EXCEPT
                                !.result = "ValueError"]
    /\ RadioFrame

\* RadioButton.set_current_index, called from outside
RadioSetCurrentIndex(index) ==
    /\ radio.constructed
    /\ radio.n < MaxRadioOps
    /\ radio' = set_current_index(RadioOp(radio, "set_current_index"), index)
    /\ RadioFrame

\* RadioButton.process_touch_state with one reading of the touch
RadioTouch(state, pos) ==
    /\ radio.constructed
    /\ radio.n < MaxRadioOps
    /\ LET r0 == [RadioOp(radio, "touch") EXCEPT
                     !.released = { i \in Options(radio) :
                                      radio.last[i] = Some(TRUE) /\ ~state }]
       IN radio' = process_touch_state(r0, 0, state, pos)
    /\ RadioFrame

\* A radio button of up to MaxOptions options under calls of
\* set_current_index and readings of a touch that is inactive, or active
\* over one of the options or outside all of them.
NextRadio ==
    \/ \E options \in 0..MaxOptions, current_index \in -1..MaxOptions :
          RadioCreate(options, current_index)
    \/ \E index \in -1..MaxOptions : RadioSetCurrentIndex(index)
    \/ \E state \in BOOLEAN, pos \in 0..MaxOptions : RadioTouch(state, pos)

SpecRadio == Init /\ [][NextRadio]_vars

\* ------------------------------------------------------ WindowManager
\* Window manager calls are made before run() and from the tick of a page
WmUser ==
    /\ wm.created
    /\ wm.n < MaxWmCalls
    /\ \/ pc = "setup"
       \/ pc = "body" /\ heap[pass.cur].fn \in PageFns

WmFrame ==
    UNCHANGED <<running, touch_was_active, touch_state, bm, real_us,
                calls_left, nticks, pass_log, bm_log, radio>>

WmCalled(w, op, arg, result) ==
    [w EXCEPT !.op = op, !.arg = arg, !.result = result, !.n = @ + 1,
              !.raised = @ \/ result # "ok",
              !.changed = @ \/ w.current_page # wm.current_page]

\* the index of x in l, as list.index(x) finds it
list_index(l, x) ==
    CHOOSE i \in 1..Len(l) : l[i] = x /\ \A j \in 1..(i-1) : l[j] # x

\* WindowManager.__init__ with the default arguments: the systray task is
\* registered inactive at 1 Hz, the systray is hidden, the tick of the
\* window manager goes to the head of the list, and os_msg becomes a
\* message handler.
WmCreate ==
    /\ pc = "setup"
    /\ ~wm.created
    /\ nalloc = 0
    /\ LET st == 1
           wt == 2
           systray == NewTask("tick_systray", execution_interval(Some(1)),
                              TRUE, FALSE)
           tick == NewTask("wm_tick", execution_interval(None), TRUE, TRUE)
       IN /\ heap' = [heap EXCEPT ![st] = systray, ![wt] = tick]
          /\ nalloc' = wt
          /\ tasks' = add_to_list(add_to_list(tasks, -1, st), 0, wt)
          /\ wm' = [wm EXCEPT !.created = TRUE, !.systray_task = st,
                              !.tick_task = wt, !.systray_visible = FALSE,
                              !.pages_need_setup = TRUE]
          /\ last_call' = Call("add_task", None, 0, wt, "ok",
                               add_to_list(tasks, -1, st))
    /\ run_log' = Posted("Adding message handler", MSG_DEBUG)
    /\ message_handlers' = Append(message_handlers, "returns")
    /\ UNCHANGED <<pc, pass, obs>>
    /\ WmFrame

\* WindowManager.add_page, of a page that is not registered
AddPage(p, make_current) ==
    /\ WmUser
    /\ ~InList(wm.pages, p)
    /\ nalloc < MaxHandles
    /\ LET h == nalloc + 1 IN
         /\ heap' = [heap EXCEPT ![h] =
                        NewTask(PageFn(p), execution_interval(PageFrequency(p)),
                                TRUE, FALSE)]
         /\ nalloc' = h
         /\ InPlace(add_to_list(tasks, -1, h))
         /\ last_call' = Call("add_task", PageFrequency(p), -1, h, "ok",
                              tasks)
         /\ wm' = WmCalled([wm EXCEPT
                               !.pages = Append(@, p),
                               !.page_tasks[p] = h,
                               !.current_page = IF make_current THEN Some(p)
                                                ELSE @],
                           "add_page", Some(p), "ok")
    /\ run_log' = Posted("Added page", MSG_INFO)
    /\ UNCHANGED <<pc, obs, message_handlers>>
    /\ WmFrame

\* WindowManager.remove_page: a page that is not registered raises
\* ValueError before anything is changed.  Otherwise the page leaves the
\* list, its task is removed from the run loop and from __page_tasks, and
\* when it was the current page the last page of the list becomes
\* current: of an empty list self.__pages[-1] raises IndexError, which
\* ends the call there.
RemovePage(p) ==
    /\ WmUser
    /\ IF ~InList(wm.pages, p)
       THEN /\ wm' = WmCalled(wm, "remove_page", Some(p), "ValueError")
            /\ UNCHANGED <<tasks, pass, obs, last_call, run_log>>
       ELSE LET h == wm.page_tasks[p]
                pages == list_remove(wm.pages, p)
                w == [wm EXCEPT !.pages = pages, !.page_tasks[p] = 0]
            IN /\ InPlace(list_remove(tasks, h))
               /\ obs' = [obs EXCEPT ![h].gone = Some(nticks)]
               /\ last_call' = Call("remove_task", None, 0, h, "ok", tasks)
               /\ IF wm.current_page = Some(p) /\ pages = <<>>
                  THEN /\ wm' = WmCalled(w, "remove_page", Some(p),
                                         "IndexError")
                       /\ run_log' = Posted("Removed task", MSG_DEBUG)
                  ELSE /\ wm' = WmCalled(
                                   [w EXCEPT !.current_page =
                                       IF wm.current_page = Some(p)
                                       THEN Some(pages[Len(pages)])
                                       ELSE @],
                                   "remove_page", Some(p), "ok")
                       /\ run_log' = Posted("Removed page", MSG_INFO)
    /\ UNCHANGED <<heap, nalloc, pc, message_handlers>>
    /\ WmFrame

\* WindowManager.set_current_page
SetCurrentPage(p) ==
    /\ WmUser
    /\ wm' = IF ~InList(wm.pages, p)
             THEN WmCalled(wm, "set_current_page", Some(p), "ValueError")
             ELSE WmCalled([wm EXCEPT !.current_page = Some(p)],
                           "set_current_page", Some(p), "ok")
    /\ UNCHANGED <<heap, nalloc, tasks, pc, pass, obs, last_call, run_log,
                   message_handlers>>
    /\ WmFrame

\* WindowManager.__change_page, for next_page (1, 0) and prev_page
\* (-1, -1): list.index raises ValueError for a current page that is not
\* in the list
change_page(w, offset, fallback) ==
    IF w.pages = <<>> THEN [result |-> "ok", current_page |-> w.current_page]
    ELSE IF w.current_page = None
    THEN [result |-> "ok",
          current_page |-> Some(w.pages[IF fallback < 0 THEN Len(w.pages)
                                        ELSE fallback + 1])]
    ELSE IF ~InList(w.pages, Val(w.current_page))
    THEN [result |-> "ValueError", current_page |-> w.current_page]
    ELSE [result |-> "ok",
          current_page |->
              Some(w.pages[((list_index(w.pages, Val(w.current_page)) - 1
                             + offset) % Len(w.pages)) + 1])]

\* WindowManager.next_page and WindowManager.prev_page
ChangePage(offset, fallback) ==
    /\ WmUser
    /\ LET r == change_page(wm, offset, fallback)
       IN wm' = WmCalled([wm EXCEPT !.current_page = r.current_page],
                         IF offset > 0 THEN "next_page" ELSE "prev_page",
                         None, r.result)
    /\ UNCHANGED <<heap, nalloc, tasks, pc, pass, obs, last_call, run_log,
                   message_handlers>>
    /\ WmFrame

\* page.needs_update = True, of a registered page
SetNeedsUpdate(p) ==
    /\ WmUser
    /\ InList(wm.pages, p)
    /\ ~wm.needs_update[p]
    /\ wm' = WmCalled([wm EXCEPT !.needs_update[p] = TRUE],
                      "needs_update", Some(p), "ok")
    /\ UNCHANGED <<heap, nalloc, tasks, pc, pass, obs, last_call, run_log,
                   message_handlers>>
    /\ WmFrame

\* WindowManager.__upadate_pages: if self.__current_page == self.__last_page
page_unchanged(current_page, last_page) == current_page = last_page

\* WindowManager.__upadate_pages: page.needs_update = False
flag_after_enqueue(flag) == FALSE

\* WindowManager.__upadate_pages on the fields w, the tasks h and their
\* observations o: the pages are set up and flagged when that is due; the
\* flagged pages have their flag cleared and their task enqueued; and
\* when the current page is not the last one, every task of
\* __page_tasks is made active for the current page and inactive for the
\* others, and the current page becomes the last one.
update_pages(w, h, o) ==
    LET registered == { p \in Pages : InList(w.pages, p) }
        nu1 == IF w.pages_need_setup
               THEN [p \in Pages |-> p \in registered \/ w.needs_update[p]]
               ELSE w.needs_update
        flagged == { p \in registered : nu1[p] }
        nu2 == [p \in Pages |-> IF p \in flagged
                                THEN flag_after_enqueue(nu1[p]) ELSE nu1[p]]
        Flagged(k) == \E p \in flagged : w.page_tasks[p] = k
        h1 == [k \in Handles |-> IF Flagged(k) THEN enqueue(h[k]) ELSE h[k]]
        o1 == [k \in Handles |->
                 IF Flagged(k) /\ h[k].last_execution_us # None
                 THEN Enqueued(o[k], FALSE) ELSE o[k]]
        w1 == [w EXCEPT !.pages_need_setup = FALSE, !.needs_update = nu2,
                        !.cleared = flagged,
                        !.requested = [p \in Pages |->
                                          @[p] \/ p \in flagged]]
        Keyed(k) == \E p \in Pages : w.page_tasks[p] = k
        IsCurrent(k) == \E p \in Pages : /\ w.page_tasks[p] = k
                                         /\ w.current_page = Some(p)
    IN IF page_unchanged(w.current_page, w.last_page)
       THEN [wm |-> w1, heap |-> h1, obs |-> o1]
       ELSE [wm |-> [w1 EXCEPT !.last_page = w.current_page],
             heap |-> [k \in Handles |->
                         IF Keyed(k) THEN set_active(h1[k], IsCurrent(k))
                         ELSE h1[k]],
             obs |-> [k \in Handles |->
                        IF Keyed(k)
                        THEN Activated(o1[k], h1[k].active, IsCurrent(k))
                        ELSE o1[k]]]

\* WindowManager.__update_systray of a hidden systray: its task is made
\* inactive, and nothing is enqueued
update_systray(w, h, o) ==
    LET k == w.systray_task
    IN [wm |-> w,
        heap |-> [h EXCEPT ![k] = set_active(@, w.systray_visible)],
        obs |-> [o EXCEPT ![k] = Activated(@, h[k].active,
                                           w.systray_visible)]]

\* WindowManager.tick, dispatched by the pass, and its return
WmTick ==
    /\ pc = "body"
    /\ heap[pass.cur].fn = "wm_tick"
    /\ LET r1 == update_pages(wm, heap, obs)
           r2 == update_systray(r1.wm, r1.heap, r1.obs)
       IN /\ wm' = [r2.wm EXCEPT !.op = "tick", !.arg = None,
                                 !.result = "ok", !.changed = FALSE,
                                 !.after_change = wm.changed]
          /\ heap' = r2.heap
          /\ obs' = r2.obs
    /\ pc' = IF \E h \in Handles : obs[h].out > 0 THEN "yield" ELSE "pass"
    /\ pass' = [pass EXCEPT !.cur = 0]
    /\ last_call' = NoCall
    /\ UNCHANGED <<nalloc, tasks, run_log, message_handlers>>
    /\ WmFrame

\* WindowManager.__tick_page returns: the page was ticked
PageTick ==
    /\ pc = "body"
    /\ heap[pass.cur].fn \in PageFns
    /\ wm' = [wm EXCEPT !.requested[PageOfFn(heap[pass.cur].fn)] = FALSE]
    /\ pc' = IF \E h \in Handles : obs[h].out > 0 THEN "yield" ELSE "pass"
    /\ pass' = [pass EXCEPT !.cur = 0]
    /\ last_call' = NoCall
    /\ UNCHANGED <<heap, nalloc, tasks, obs, run_log, message_handlers>>
    /\ WmFrame

\* A window manager with up to two pages, a Page and a StaticPage, that
\* are added, removed, made current and flagged before run() and from
\* the ticks of the pages.
NextWm ==
    \/ WmCreate
    \/ \E p \in Pages, make_current \in BOOLEAN : AddPage(p, make_current)
    \/ \E p \in Pages : RemovePage(p)
    \/ \E p \in Pages : SetCurrentPage(p)
    \/ ChangePage(1, 0)
    \/ ChangePage(-1, -1)
    \/ \E p \in Pages : SetNeedsUpdate(p)
    \/ wm.created /\ Run
    \/ \E hw \in BOOLEAN : Tick(100000, hw, 1)
    \/ VisitTask
    \/ WmTick
    \/ PageTick
    \/ EndPass

SpecWm == Init /\ [][NextWm]_vars

TypeOK ==
    /\ nalloc \in 0..MaxHandles
    /\ \A h \in Handles :
          heap[h].fn \in Fns \cup ListFns \cup PageFns
                         \cup {"none", "wm_tick", "tick_systray"}
    /\ \A i \in 1..Len(tasks) : tasks[i] \in 1..nalloc
    /\ pc \in {"setup", "loop", "pass", "body", "yield", "stopped", "failed"}

\* ------------------------------------------------------------ claims
\* The visits made so far by the pass that is running
Visits == { pass_log[k] : k \in 1..Len(pass_log) }

\* A pass over a list that no call changes meanwhile visits the tasks one
\* by one in the order of the list, each once.
PassVisitsList ==
    (InPass /\ ~pass.list_changed) =>
        /\ Len(pass_log) = pass.idx - 1
        /\ Len(pass_log) <= Len(tasks)
        /\ \A k \in 1..Len(pass_log) : pass_log[k].h = tasks[k]

\* touch was sampled inactive at this tick and at the one before
NoTouch == ~pass.sampled /\ ~pass.prev_sampled

\* the visit found the task active and not marked in flight
Ready(v) == v.pre.active /\ ~v.pre.current_invocation

\* the visit found a task that was invoked before and on which neither
\* enqueue() nor a change of active was applied since
Undisturbed(v) == v.gap # None /\ ~v.dirty

\* the task has a positive interval
Throttled(v) ==
    /\ v.pre.execution_interval_us # None
    /\ Val(v.pre.execution_interval_us) > 0

\* the visit came before the interval of the task had elapsed (a task
\* with an interval of None never has it elapsed)
Early(v) ==
    /\ v.gap # None
    /\ \/ v.pre.execution_interval_us = None
       \/ Val(v.gap) < Val(v.pre.execution_interval_us)

\* C1: a task whose function returns a coroutine is never dispatched
\* while an invocation of it is outstanding, whatever the touch, the
\* elapsed time or enqueue() say, so that no task ever has more than one
\* invocation outstanding.
C1_SingleInvocation ==
    /\ \A h \in Handles : obs[h].out <= 1
    /\ \A v \in Visits : v.out > 0 => ~v.ran

C1_Witness ==
    \E v \in Visits :
        /\ v.out = 1 /\ ~v.ran
        /\ v.pre.active /\ v.pre.touch_forces_execution /\ pass.sampled
        /\ v.enq # "no"
        /\ Throttled(v) /\ Val(v.gap) >= Val(v.pre.execution_interval_us)

\* C2: with no touch at this tick or the last and with neither enqueue()
\* nor a change of active since its last invocation, a task with a
\* positive frequency is invoked only when at least its interval has
\* passed since that invocation.
C2_NeverFaster ==
    \A v \in Visits :
        (v.ran /\ NoTouch /\ Undisturbed(v) /\ Throttled(v))
        => Val(v.gap) >= Val(v.pre.execution_interval_us)

C2_Witness ==
    \E v \in Visits :
        /\ v.ran /\ NoTouch /\ Undisturbed(v) /\ Throttled(v)
        /\ Val(v.gap) >= Val(v.pre.execution_interval_us)

\* C3: in the pass of the first tick that samples the touch inactive
\* after a tick that sampled it active, every active task with
\* touch_forces_execution and no invocation in flight is invoked; in the
\* passes after it such a task is invoked only by its interval.
C3_ReleaseCatchUp ==
    \A v \in Visits :
        /\ ( /\ ~pass.sampled /\ pass.prev_sampled
             /\ Ready(v) /\ v.pre.touch_forces_execution )
           => v.ran
        /\ ( /\ NoTouch /\ v.ran /\ Undisturbed(v)
             /\ v.pre.touch_forces_execution )
           => ~Early(v)

C3_Witness ==
    \E v \in Visits :
        /\ ~pass.sampled /\ pass.prev_sampled
        /\ v.pre.touch_forces_execution /\ v.ran
        /\ Undisturbed(v) /\ Early(v)

\* C4: a pass whose tick sampled the touch active visits every task of
\* the list and invokes every active task with touch_forces_execution
\* and no invocation in flight, a task of frequency 0 included.
C4_TouchForces ==
    /\ PassVisitsList
    /\ \A v \in Visits :
          ( /\ pass.sampled /\ Ready(v) /\ v.pre.touch_forces_execution )
          => v.ran

C4_Witness ==
    \E v \in Visits :
        /\ pass.sampled /\ v.pre.touch_forces_execution /\ v.ran
        /\ v.pre.execution_interval_us = None
        /\ Undisturbed(v)

\* C5: a task with touch_forces_execution False and a positive frequency
\* is never invoked before its interval has passed since its last
\* invocation, whatever the touch does, unless enqueue() or a change of
\* active came in between.
C5_TouchIgnored ==
    \A v \in Visits :
        ( /\ v.ran /\ ~v.pre.touch_forces_execution
          /\ Undisturbed(v) /\ Throttled(v) )
        => Val(v.gap) >= Val(v.pre.execution_interval_us)

C5_Witness ==
    \E v \in Visits :
        /\ pass.touch_considered_active
        /\ Ready(v) /\ ~v.pre.touch_forces_execution
        /\ Throttled(v) /\ Undisturbed(v) /\ Early(v) /\ ~v.ran

\* C6: a pass visits every task of the list, and a task that is active
\* and was never invoked is invoked when it is visited, for every kind of
\* interval and with or without touch.
C6_FreshTaskRuns ==
    /\ PassVisitsList
    /\ \A v \in Visits : (Ready(v) /\ v.gap = None) => v.ran

C6_Witness ==
    \E v \in Visits :
        /\ v.gap = None /\ v.ran
        /\ v.pre.execution_interval_us = None
        /\ ~pass.touch_considered_active

\* C7: a pass visits every task of the list, and a task that was made
\* active from inactive since its last invocation is invoked when it is
\* visited while active and not in flight, however little of its interval
\* has passed.
C7_ActivationRuns ==
    /\ PassVisitsList
    /\ \A v \in Visits : (Ready(v) /\ v.woken) => v.ran

C7_Witness ==
    \E v \in Visits :
        /\ v.woken /\ v.enq = "no" /\ v.ran
        /\ Throttled(v) /\ Early(v)
        /\ ~pass.touch_considered_active

\* C8: a pass visits every task of the list, and a task on which
\* enqueue() was called since its last invocation began, by its own body
\* too, is invoked when it is visited while active and not in flight,
\* whatever its interval.
C8_EnqueueRuns ==
    /\ PassVisitsList
    /\ \A v \in Visits : (Ready(v) /\ v.enq # "no") => v.ran

C8_Witness ==
    \E v \in Visits :
        /\ v.enq = "self" /\ ~v.woken /\ v.ran
        /\ Throttled(v) /\ Early(v)
        /\ ~pass.touch_considered_active

\* the position, counted from 1, that add_task(index) gives the new task
\* in a list of n tasks
Position(index, n) ==
    IF index < 0 \/ index > n THEN n + 1 ELSE index + 1

\* C9: add_task with a negative index puts the new task at the end of
\* the list and with an index >= 0 at that position, the tasks from there
\* on moving up by one; a pass over a list that nothing changes visits,
\* and so invokes, the tasks in the order of the list.
C9_ListOrder ==
    /\ (last_call.op = "add_task" /\ last_call.result = "ok") =>
          LET old == last_call.before
              p == Position(last_call.index, Len(old))
          IN /\ Len(tasks) = Len(old) + 1
             /\ tasks[p] = last_call.h
             /\ \A i \in 1..Len(old) :
                   tasks[IF i < p THEN i ELSE i + 1] = old[i]
    /\ PassVisitsList

C9_Witness ==
    /\ tasks = <<1, 3, 2>>
    /\ Len(pass_log) = 3
    /\ \A k \in 1..3 : pass_log[k].ran /\ pass_log[k].h = tasks[k]
    /\ ~pass.list_changed

\* C10: add_task with a negative execution_frequency raises ValueError,
\* returns no task and leaves the list, the tasks and the rest of the
\* state as they were.
C10_NegativeFrequencyRejected ==
    [][ ( /\ last_call' # last_call
          /\ last_call'.op = "add_task"
          /\ last_call'.arg # None
          /\ Val(last_call'.arg) < 0 )
        => ( /\ last_call'.result = "ValueError"
             /\ last_call'.h = 0
             /\ UNCHANGED <<heap, nalloc, tasks, running, touch_was_active,
                            touch_state, bm, real_us, pc, pass, calls_left,
                            nticks, obs, pass_log, message_handlers, run_log,
                   bm_log, wm, radio>> ) ]_vars

C10_Witness ==
    /\ last_call.op = "add_task"
    /\ last_call.result = "ValueError"
    /\ Val(last_call.arg) < 0
    /\ Len(tasks) > 0
    /\ tasks = last_call.before

\* the last call registered a task with this execution_frequency
Registered(execution_frequency) ==
    /\ last_call.op = "add_task"
    /\ last_call.result = "ok"
    /\ last_call.arg = execution_frequency

\* C11: a task registered with frequency 0 has no interval; with
\* touch_forces_execution False it is invoked when it is first visited
\* and after that only once enqueue() or a change of active was applied
\* to it, however much time passes and whatever the touch does.
C11_ManualOnly ==
    /\ Registered(Some(0)) =>
          heap[last_call.h].execution_interval_us = None
    /\ PassVisitsList
    /\ \A v \in Visits :
          ( /\ v.pre.execution_interval_us = None
            /\ ~v.pre.touch_forces_execution )
          => /\ (Ready(v) /\ v.gap = None) => v.ran
             /\ v.ran => (v.gap = None \/ v.dirty)

C11_Witness ==
    \E v \in Visits :
        /\ v.pre.execution_interval_us = None
        /\ ~v.pre.touch_forces_execution
        /\ Ready(v) /\ Undisturbed(v) /\ ~v.ran
        /\ pass.sampled
        /\ Val(v.gap) >= 200000

Halted ==
    /\ pc = "failed"
    /\ pass_log # <<>>
    /\ pass_log[Len(pass_log)].h = pass.cur
    /\ pass_log[Len(pass_log)].ran

\* C13: an error raised by the body of a task is not swallowed: the tasks
\* after it in the list are not invoked in that tick, a message of
\* severity MSG_FATAL with the text of the error has been delivered to
\* every registered handler (also past a handler that raises) when the
\* error leaves run(), the error does leave run(), and no further tick
\* is started.
C13_SyncErrorHalts ==
    /\ [](pc = "failed" =>
            /\ Halted
            /\ Len(pass_log) = pass.idx - 1
            /\ run_log.escaped = Some(TaskError)
            /\ Len(run_log.posted) = Len(message_handlers)
            /\ \A i \in 1..Len(message_handlers) :
                  /\ run_log.posted[i].handler = i
                  /\ run_log.posted[i].msg = TaskError
                  /\ run_log.posted[i].severity = MSG_FATAL)
    /\ [][pc = "failed" =>
            /\ pc' = "failed"
            /\ nticks' = nticks
            /\ pass_log' = pass_log]_vars

C13_Witness ==
    /\ Halted
    /\ Len(message_handlers) = MaxHandlers
    /\ message_handlers[1] = "raises"
    /\ pass.idx <= Len(pass.iter)
    /\ task_should_run(heap[pass.iter[pass.idx]], pass.time_us,
                       pass.touch_considered_active)
    /\ nticks < MaxTicks
    /\ running

\* C14: an error that ends the coroutine of an async task is not caught
\* by the scheduler: it reaches run_async, is posted with MSG_FATAL and
\* stops the run loop, as an error of a plain function does: once the
\* sleep(0) in which a coroutine raised is over, run() has been left.
C14_AsyncErrorHalts ==
    (pc # "yield" /\ \E h \in Handles : obs[h].failed) =>
        /\ pc = "failed"
        /\ run_log.escaped = Some(TaskError)
        /\ Len(run_log.posted) = Len(message_handlers)
        /\ \A i \in 1..Len(message_handlers) :
              /\ run_log.posted[i].msg = TaskError
              /\ run_log.posted[i].severity = MSG_FATAL

\* C15: the mark current_invocation of a task is cleared whenever the
\* coroutine started by a dispatch of it is over, and is not cleared
\* while the coroutine is outstanding: the task is marked exactly while
\* it has a coroutine outstanding.
C15_MarkFollowsWork ==
    \A h \in Handles : heap[h].current_invocation <=> obs[h].out > 0

\* a pass has ended and a tick begun while a coroutine is outstanding
C15_Witness ==
    /\ pc = "pass"
    /\ nticks > 1
    /\ \E h \in Handles :
          /\ obs[h].out > 0
          /\ ~obs[h].failed
          /\ heap[h].current_invocation
          /\ \E v \in Visits : v.h = h /\ ~v.ran /\ v.out > 0

\* stop() was called by a dispatched function or by a started coroutine
StoppedInTask == run_log.stop_tick # None

\* C16: after stop() is called from inside a task the pass that is
\* running goes on to the end of the list and dispatches the tasks that
\* are due as any pass does, no other tick is started, the loop is left
\* and run() returns, and nothing is dispatched from then on.
C16_StopFinishesPass ==
    /\ [](StoppedInTask =>
            /\ ~running
            /\ nticks = Val(run_log.stop_tick)
            /\ PassVisitsList
            /\ InPass =>
                  \A k \in (run_log.stop_visits + 1)..Len(pass_log) :
                     pass_log[k].ran <=>
                        task_should_run(pass_log[k].pre, pass.time_us,
                                        pass.touch_considered_active))
    /\ [][(StoppedInTask /\ pc = "pass" /\ pass.idx <= Len(pass.iter))
            => (pass_log' # pass_log /\ pass'.idx = pass.idx + 1)]_vars
    /\ [][(StoppedInTask /\ pc = "loop") => pc' = "stopped"]_vars
    /\ [][pc = "stopped" => (pc' = "stopped" /\ pass_log' = pass_log
                             /\ nticks' = nticks)]_vars

C16_Witness ==
    /\ StoppedInTask
    /\ pc = "body"
    /\ Len(pass_log) > run_log.stop_visits
    /\ pass_log[Len(pass_log)].ran
    /\ nticks < MaxTicks

\* the last call was remove_task with a function
RemovedByFn == last_call.op = "remove_task" /\ last_call.arg # None

\* the place of handle h in the list l
IndexOf(l, h) == CHOOSE i \in 1..Len(l) : l[i] = h

RemovedByHandle == last_call.op = "remove_task" /\ last_call.arg = None

\* C18: remove_task with a handle that is not in the list raises
\* ValueError in the caller and leaves the list as it was; with a handle
\* that is in the list it takes exactly that task out, also when another
\* task of the list has the same function.
C18_RemoveByHandle ==
    RemovedByHandle =>
        LET old == last_call.before
            h == last_call.h
        IN IF InList(old, h)
           THEN /\ last_call.result = "ok"
                /\ Len(tasks) = Len(old) - 1
                /\ ~InList(tasks, h)
                /\ \A k \in Handles \ {h} : InList(tasks, k) <=> InList(old, k)
                /\ \A i, j \in 1..Len(tasks) :
                      i < j => IndexOf(old, tasks[i]) < IndexOf(old, tasks[j])
           ELSE /\ last_call.result = "ValueError"
                /\ tasks = old

C18_Witness ==
    /\ RemovedByHandle
    /\ last_call.result = "ValueError"
    /\ obs[last_call.h].gone # None
    /\ \E k \in Handles :
          /\ InList(tasks, k)
          /\ k # last_call.h
          /\ heap[k].fn = heap[last_call.h].fn

\* C19: a tick polls the touch, then lets the backlight manager tick,
\* whatever the state, then starts the pass: when the pass captures the
\* touch the display phase is the one for the time of this tick, a touch
\* that woke the display has been waited out and is not seen by the
\* pass, and tasks are visited only after that.
C19_TickOrder ==
    /\ pass_log # <<>> => nticks > 0
    /\ nticks > 0 =>
          LET t == run_log.trace
          IN /\ Len(t) >= 3
             /\ t[1] = "poll"
             /\ t[Len(t) - 1] = "backlight"
             /\ t[Len(t)] = "dispatch"
             /\ \A i \in 2..(Len(t) - 2) : t[i] = "wait_poll"
    /\ InPass =>
          /\ bm.display_phase =
                Some(next_display_state(pass.time_now_s,
                                        Val(bm.last_interaction_s),
                                        bm.display_timeouts))
          /\ run_log.woke =>
                /\ ~pass.sampled
                /\ pass.touch_considered_active = pass.prev_sampled

C19_Witness ==
    /\ InPass
    /\ run_log.woke
    /\ ~pass.prev_sampled
    /\ \E v \in Visits :
          /\ v.pre.touch_forces_execution
          /\ Ready(v) /\ Undisturbed(v)
          /\ ~v.ran

\* C20 as stated: the touch is polled at most once per tick, before the
\* pass: over any run the number of touch.poll() calls equals the number
\* of ticks.
C20_OnePollPerTick == run_log.polls = nticks

\* C20, amended: OS.__tick polls the touch once per tick, as its first
\* step; the backlight manager polls again, at least once, in the ticks
\* in which a touch changes the display phase while
\* display_wake_consumes_touch is set, and in no other tick; so the
\* number of polls is at least the number of ticks and equals it when no
\* tick met such a touch.
C20_PollsPerTick ==
    /\ run_log.polls >= nticks + run_log.wakes
    /\ run_log.wakes = 0 => run_log.polls = nticks
    /\ nticks > 0 =>
          LET t == run_log.trace
          IN /\ t[1] = "poll"
             /\ \A i \in 2..Len(t) : t[i] # "poll"
             /\ run_log.woke <=> Polls(t) > 1
             /\ \A i \in 1..Len(t) :
                   t[i] = "dispatch" => \A j \in i..Len(t) : t[j] # "wait_poll"
    /\ (InPass /\ run_log.woke) =>
          /\ bm.display_wake_consumes_touch
          /\ bm.last_interaction_s = Some(pass.time_now_s)
          /\ ~pass.sampled
          /\ nticks > 1

C20_Witness ==
    /\ InPass
    /\ run_log.woke
    /\ Polls(run_log.trace) = 1 + MaxWaitPolls
    /\ run_log.polls = nticks + MaxWaitPolls
    /\ pass_log # <<>>

\* C21: in a tick whose phase update reports a change while
\* display_wake_consumes_touch is set, BacklightManager.tick returns with
\* the touch read as released, and the touch stays so for the tasks of
\* that tick; in a tick without a change, or with the flag cleared, it
\* does not poll and leaves the touch as OS.__tick polled it.
C21_WakeConsumesTouch ==
    nticks > 0 =>
        IF run_log.changed /\ bm.display_wake_consumes_touch
        THEN /\ ~touch_state
             /\ ~pass.sampled
             /\ run_log.polled => Polls(run_log.trace) > 1
        ELSE /\ Polls(run_log.trace) = 1
             /\ touch_state = run_log.polled

C21_Witness ==
    /\ run_log.changed
    /\ bm.display_wake_consumes_touch
    /\ run_log.polled
    /\ pc = "body"
    /\ ~touch_state

\* the last call on the BacklightManager was update_display_phase
Updated == bm_log.op = "update_display_phase"

\* the time since the last interaction that the last call was given
ElapsedGiven == bm_log.now - bm_log.last

\* C22: the phase after update_display_phase depends on the time since
\* the last interaction and the two timeouts, compared strictly: with
\* timeouts 10 and 20, 4 s, 14 s and 24 s give on, dim and sleep, 10 s
\* gives on and 20 s gives dim; with 0 < dim < sleep the phase is on up
\* to dim, dim above it up to sleep, and sleep above that.
C22_PhaseByElapsed ==
    Updated =>
        LET e == ElapsedGiven
            t == bm.display_timeouts
        IN /\ t = Timeouts(10, 20) =>
                 /\ e = 4 => bm.display_phase = Some("on")
                 /\ e = 14 => bm.display_phase = Some("dim")
                 /\ e = 24 => bm.display_phase = Some("sleep")
                 /\ e = 10 => bm.display_phase = Some("on")
                 /\ e = 20 => bm.display_phase = Some("dim")
           /\ (0 < t.dim /\ t.dim < t.sleep) =>
                 bm.display_phase =
                    Some(IF e <= t.dim THEN "on"
                         ELSE IF e <= t.sleep THEN "dim" ELSE "sleep")

C22_Witness ==
    /\ Updated
    /\ bm.display_timeouts = Timeouts(10, 20)
    /\ ElapsedGiven = 20
    /\ bm.display_phase = Some("dim")
    /\ Val(bm_log.before).display_phase = Some("sleep")

\* C23: a phase whose timeout is 0 is never entered, whatever the time
\* since the last interaction: with a dim timeout of 0 the phase is on or
\* sleep, with a sleep timeout of 0 it is on or dim, with both 0 it is on.
C23_ZeroDisablesPhase ==
    Updated =>
        LET t == bm.display_timeouts
        IN /\ t.dim = 0 => bm.display_phase \in {Some("on"), Some("sleep")}
           /\ t.sleep = 0 => bm.display_phase \in {Some("on"), Some("dim")}
           /\ (t.dim = 0 /\ t.sleep = 0) => bm.display_phase = Some("on")

C23_Witness ==
    /\ Updated
    /\ bm.display_timeouts = Timeouts(0, 0)
    /\ ElapsedGiven = 601
    /\ bm.display_phase = Some("on")
    /\ Val(bm_log.before).display_phase = Some("sleep")

\* C30: with both timeouts set and the sleep timeout not above the dim
\* timeout the phase is never dim: it is on until the time since the last
\* interaction exceeds the sleep timeout and sleep from then on.
C30_MisorderedSkipsDim ==
    Updated =>
        LET e == ElapsedGiven
            t == bm.display_timeouts
        IN (t.dim # 0 /\ t.sleep # 0 /\ t.sleep <= t.dim) =>
              bm.display_phase = Some(IF e > t.sleep THEN "sleep" ELSE "on")

C30_Witness ==
    /\ Updated
    /\ bm.display_timeouts = Timeouts(20, 10)
    /\ ElapsedGiven = 24
    /\ bm.display_phase = Some("sleep")
    /\ Val(bm_log.before).display_phase = Some("on")
    /\ Val(bm_log.before).display_timeouts = Timeouts(20, 10)

\* The last call repeats the call before it: update_display_phase with the
\* same times, no setting assigned in between
Repeated ==
    /\ Updated
    /\ bm_log.prev = <<"update_display_phase", bm_log.now, bm_log.last>>

\* C24: an update_display_phase that repeats the one before it, with the
\* same times and the settings as they were, returns False, writes neither
\* the backlight nor the LEDs and leaves every field as it was; and an
\* update_display_phase writes to the hardware only when it changes the
\* stored phase.
C24_RepeatedUpdateIsSilent ==
    /\ Repeated =>
          /\ ~bm_log.changed
          /\ bm_log.writes = <<>>
          /\ bm = Val(bm_log.before)
    /\ (Updated /\ bm_log.writes # <<>>) =>
          bm.display_phase # Val(bm_log.before).display_phase

C24_Witness ==
    /\ Repeated
    /\ ElapsedGiven = 31
    /\ bm.display_phase = Some("sleep")
    /\ bm.requested_glow_led_rgb # None
    /\ bm.presto.backlight = Some(for_phase(bm.display_brightnesses, "sleep"))
    /\ bm_log.n = MaxBmCalls

\* The last call was update_display_phase, directly or from tick()
Ticked == bm_log.op = "tick"

PhaseBefore == Val(bm_log.before).display_phase

\* C25: the update_display_phase that finds no phase stored, called
\* directly or by the first tick, stores the phase of its times, writes
\* the display brightness of that phase to the backlight and returns
\* False, so that the first tick neither polls the touch nor alters it;
\* every later one that changes the stored phase returns True.
C25_FirstUpdateIsNoChange ==
    (Updated \/ Ticked) =>
        /\ PhaseBefore = None =>
              /\ ~bm_log.changed
              /\ bm.display_phase \in {Some("on"), Some("dim"), Some("sleep")}
              /\ Updated =>
                    bm.display_phase =
                        Some(next_display_state(bm_log.now, bm_log.last,
                                                bm.display_timeouts))
              /\ Ticked => bm.display_phase = Some("on")
              /\ bm_log.writes # <<>>
              /\ bm_log.writes[1] =
                    [op |-> "set_backlight",
                     value |-> for_phase(bm.display_brightnesses,
                                         Val(bm.display_phase))]
              /\ bm.presto.backlight = Some(bm_log.writes[1].value)
              /\ Ticked => (bm_log.polls = 0 /\ touch_state = bm_log.touch)
        /\ (PhaseBefore # None /\ bm.display_phase # PhaseBefore) =>
              bm_log.changed

C25_Witness ==
    /\ Ticked
    /\ PhaseBefore = None
    /\ bm_log.touch
    /\ touch_state
    /\ ~bm_log.changed
    /\ bm.display_wake_consumes_touch
    /\ bm.display_brightnesses = Levels(90, 50, 0)
    /\ bm.presto.backlight = Some(90)

\* The colour the last call wrote to the LEDs, if it wrote one
LedWrites ==
    { k \in 1..Len(bm_log.writes) : bm_log.writes[k].op = "set_led_rgb" }

Scaled(rgb, brightness) == [i \in 1..3 |-> scale(rgb[i], brightness)]

\* C26: with display_phase_controls_glow_leds set and a phase stored, a
\* call that writes to the LEDs, be it set_glow_leds or a change of phase,
\* writes each channel of the colour last passed to set_glow_leds times
\* the glow brightness of the phase now stored, rounded towards zero;
\* (200, 100, 10) under 0.9 and then a phase of 0.5 gives (100, 50, 5).
C26_LedsScaledFromRaw ==
    (LedWrites # {} /\ bm.display_phase_controls_glow_leds
     /\ bm.display_phase # None) =>
        LET brightness == for_phase(bm.glow_led_brighnesses,
                                    Val(bm.display_phase))
            expected == Scaled(Val(bm_log.raw), brightness)
        IN /\ bm_log.raw # None
           /\ \A k \in LedWrites : bm_log.writes[k].value = expected
           /\ bm.presto.led_rgb = Some(expected)
           /\ (bm_log.raw = Some(<<200, 100, 10>>) /\ brightness = 50) =>
                 bm.presto.led_rgb = Some(<<100, 50, 5>>)

C26_Witness ==
    /\ Updated \/ Ticked
    /\ bm.display_phase_controls_glow_leds
    /\ bm_log.raw = Some(<<200, 100, 10>>)
    /\ bm.glow_led_brighnesses = Levels(90, 50, 0)
    /\ Val(bm_log.before).presto.led_rgb = Some(<<180, 90, 9>>)
    /\ PhaseBefore = Some("on")
    /\ bm.display_phase = Some("dim")
    /\ bm.presto.led_rgb = Some(<<100, 50, 5>>)

\* The phase the stored timeouts give at the time of the last tick
PhaseDue ==
    Some(next_display_state(bm_log.now, Val(bm.last_interaction_s),
                            bm.display_timeouts))

\* The display brightness configured for the stored phase
Configured == Some(for_phase(bm.display_brightnesses, Val(bm.display_phase)))

\* C27 as stated: after every tick the phase is the one the timeouts now
\* set give, and the backlight has the brightness now configured for it.
C27_SettingsOnNextTick ==
    Ticked => (bm.display_phase = PhaseDue /\ bm.presto.backlight = Configured)

\* C27, amended: after every tick the phase is the one the timeouts now
\* set give; a tick that changes the phase leaves the backlight at the
\* brightness now configured for the new phase, and a tick that does not
\* change the phase writes nothing, so that the backlight keeps the
\* brightness it had, whatever is configured by now.
C27_TimeoutsNowBrightnessAtChange ==
    Ticked =>
        /\ bm.display_phase = PhaseDue
        /\ bm.display_phase # PhaseBefore => bm.presto.backlight = Configured
        /\ bm.display_phase = PhaseBefore =>
              /\ bm_log.writes = <<>>
              /\ bm.presto.backlight = Val(bm_log.before).presto.backlight

C27_Witness ==
    /\ Ticked
    /\ bm_log.prev[1] = "set_brightnesses"
    /\ PhaseBefore = Some("on")
    /\ bm.display_phase = Some("on")
    /\ bm.display_brightnesses = Levels(90, 50, 0)
    /\ bm.presto.backlight = Some(DefaultOnBrightness)

\* C28: post_message calls every handler registered then, once each in the
\* order of registration, with the message and the severity it was given,
\* the handlers after one that raises included; the exception of a handler
\* is printed and does not leave post_message, so that add_message_handler
\* goes on to register its handler.
C28_HandlersInOrder ==
    run_log.post # None =>
        LET p == Val(run_log.post)
        IN /\ Len(run_log.posted) = Len(p.handlers)
           /\ \A i \in 1..Len(run_log.posted) :
                 /\ run_log.posted[i].handler = i
                 /\ run_log.posted[i].msg = p.msg
                 /\ run_log.posted[i].severity = p.severity
                 /\ run_log.posted[i].printed = (p.handlers[i] = "raises")
           /\ p.msg = "Adding message handler" =>
                 /\ p.severity = MSG_DEBUG
                 /\ Len(message_handlers) = Len(p.handlers) + 1
                 /\ SubSeq(message_handlers, 1, Len(p.handlers)) = p.handlers

C28_Witness ==
    /\ run_log.post # None
    /\ Val(run_log.post).msg = "Starting tasks"
    /\ Val(run_log.post).severity = MSG_INFO
    /\ message_handlers = <<"raises", "returns">>
    /\ Len(run_log.posted) = 2
    /\ run_log.posted[1].printed
    /\ run_log.posted[2] = [handler |-> 2, msg |-> "Starting tasks",
                            severity |-> MSG_INFO, printed |-> FALSE]
    /\ pc = "loop"

\* C29: after active = True is assigned to a task, whatever its fields
\* were, its last_execution_us is None.
C29_ActivationResetsLastExecution ==
    (last_call.op = "active" /\ last_call.arg = Some(TRUE)) =>
        heap[last_call.h].last_execution_us = None

\* active = True assigned to a task that was active and had run
C29_Witness ==
    /\ last_call.op = "active"
    /\ last_call.arg = Some(TRUE)
    /\ heap[last_call.h].active
    /\ heap[last_call.h].last_execution_us # None
    /\ ~obs[last_call.h].dirty

\* The last call registered a task with a frequency above 0
RegisteredHz ==
    /\ last_call.op = "add_task"
    /\ last_call.result = "ok"
    /\ last_call.arg # None
    /\ Val(last_call.arg) > 0

\* C31 as stated: the interval of a task registered with a frequency F > 0
\* is round(1,000,000 / F) microseconds.
C31_IntervalRounded ==
    RegisteredHz =>
        heap[last_call.h].execution_interval_us =
            Some(round_div(1000000, Val(last_call.arg)))

\* C31, amended: the interval of a task registered with a frequency F > 0
\* is 1,000,000 / F microseconds rounded down, the largest whole number
\* of microseconds that F times over does not exceed a second.
C31_IntervalFloored ==
    RegisteredHz =>
        LET F == Val(last_call.arg)
            us == heap[last_call.h].execution_interval_us
        IN /\ us # None
           /\ Val(us) * F <= 1000000
           /\ (Val(us) + 1) * F > 1000000

C31_Witness ==
    /\ RegisteredHz
    /\ Val(last_call.arg) = 6
    /\ heap[last_call.h].execution_interval_us = Some(166666)

\* The counter wrapped between the last invocation of the visited task and
\* this pass: the time stamped on the task is above the time of the pass
Wrapped(v) ==
    /\ v.pre.last_execution_us # None
    /\ Val(v.pre.last_execution_us) > pass.time_us

\* C32: a task with a positive interval that was last invoked before the
\* counter wrapped and is visited after the wrap, with no touch and nothing
\* else to force it, is invoked when at least its interval of real time has
\* passed since that invocation, and is not invoked before.
C32_DueAcrossWrap ==
    \A v \in Visits :
        (Wrapped(v) /\ Ready(v) /\ NoTouch /\ Undisturbed(v) /\ Throttled(v))
        => (v.ran <=> Val(v.gap) >= Val(v.pre.execution_interval_us))

C32_Witness ==
    \E v \in Visits :
        /\ Wrapped(v) /\ Ready(v) /\ NoTouch /\ Undisturbed(v) /\ Throttled(v)
        /\ v.ran
        /\ Val(v.gap) = Val(v.pre.execution_interval_us)
        /\ Val(v.pre.last_execution_us) = TicksPeriod - 50000
        /\ pass.time_us = 150000

\* C33: no handle is invoked twice by one pass, whatever the bodies of the
\* tasks do to the list and to the tasks meanwhile.
C33_OncePerPass ==
    \A j, k \in 1..Len(pass_log) :
        (j < k /\ pass_log[j].ran /\ pass_log[k].ran)
        => pass_log[j].h # pass_log[k].h

\* a task without a frequency is invoked, its body registers a task at
\* index 0, and the same pass invokes it again at the same time
C33_Witness ==
    /\ Len(pass_log) >= 2
    /\ pass_log[1].h = pass_log[2].h
    /\ pass_log[1].ran /\ pass_log[2].ran
    /\ pass_log[2].pre.last_execution_us = Some(pass.time_us)
    /\ pass_log[2].pre.execution_interval_us = Some(-1)
    /\ pass_log[2].enq = "no"
    /\ last_call.op = "none"

\* ------------------------------------------------------ WindowManager
\* the last operation on the window manager was remove_page of a
\* registered page that left no page registered
RemovedLastPage ==
    /\ wm.op = "remove_page"
    /\ wm.result # "ValueError"
    /\ wm.pages = <<>>

\* C35: remove_page of the last remaining page, current or not, completes
\* without error and leaves current_page None.
C35_RemoveLastPage ==
    RemovedLastPage => wm.result = "ok" /\ wm.current_page = None

\* the only page, which was not current, was removed in a running loop
C35_Witness ==
    /\ RemovedLastPage
    /\ wm.result = "ok"
    /\ wm.current_page = None
    /\ pc = "body"


\* the pages registered with the window manager
RegisteredPages == { p \in Pages : InList(wm.pages, p) }

\* the task of a registered page
PageTask(p) == heap[wm.page_tasks[p]]

\* the pages ticked so far in the pass that is running
TickedPages ==
    { PageOfFn(v.pre.fn) :
        v \in { u \in Visits : u.ran /\ u.pre.fn \in PageFns } }

\* the window manager has ticked after a change of the current page, and
\* no call was made on it since
TickedAfterChange == wm.op = "tick" /\ wm.after_change

\* the for loop of the pass has reached the end of the list
PassDone == pc = "pass" /\ pass.idx > Len(pass.iter)

\* after such a tick the task of the current page is active and the
\* tasks of the other registered pages are not
C34_CurrentOnlyActive ==
    TickedAfterChange =>
        \A p \in RegisteredPages : PageTask(p).active <=> wm.current_page = Some(p)

\* a page added without make_current has an inactive task
C34_AddedInactive ==
    (wm.op = "add_page" /\ wm.current_page # wm.arg) =>
        ~PageTask(Val(wm.arg)).active

\* while no page was made current, no page is ticked
C34_NoneCurrentNoneTicked ==
    wm.current_page = None => TickedPages = {}

\* the pass of such a tick ticks the current page and no other
C34_OnlyCurrentTicked ==
    /\ (InPass /\ TickedAfterChange) =>
          TickedPages \subseteq {Val(wm.current_page)}
    /\ (PassDone /\ TickedAfterChange) => TickedPages = {Val(wm.current_page)}

\* C34: after every tick of the window manager that follows a change of
\* the current page, the task of the current page is active and the tasks
\* of all other registered pages are inactive; a page added without
\* make_current stays inactive; with no page made current no page is ever
\* ticked; after set_current_page(B) and a tick only B is ticked.
C34_OnlyCurrentPageRuns ==
    /\ C34_CurrentOnlyActive
    /\ C34_AddedInactive
    /\ C34_NoneCurrentNoneTicked
    /\ C34_OnlyCurrentTicked

\* B was made current after A had been ticking, and a pass ticked B alone
C34_Witness ==
    /\ PassDone
    /\ TickedAfterChange
    /\ wm.current_page = Some("B")
    /\ wm.pages = <<"A", "B">>
    /\ PageTask("B").active
    /\ ~PageTask("A").active
    /\ TickedPages = {"B"}
    /\ nticks > 1


\* the tick of the window manager has just returned to the pass
WmJustTicked ==
    /\ wm.op = "tick"
    /\ pc = "pass"
    /\ pass_log # <<>>
    /\ pass_log[Len(pass_log)].pre.fn = "wm_tick"
    /\ pass_log[Len(pass_log)].ran

\* the number of times the pass has ticked page p so far
PageTicks(p) ==
    Cardinality({ k \in 1..Len(pass_log) :
                    pass_log[k].ran /\ pass_log[k].pre.fn = PageFn(p) })

\* the tick of the window manager leaves no registered page flagged, and
\* the task of every page whose flag it cleared is enqueued
C37_FlagClearedAndEnqueued ==
    WmJustTicked =>
        \A p \in RegisteredPages :
            /\ ~wm.needs_update[p]
            /\ p \in wm.cleared => PageTask(p).last_execution_us = None

\* a pass without further calls ticks a current page whose flag its
\* window manager tick cleared, once
C37_CurrentTickedOnce ==
    (PassDone /\ wm.op = "tick") =>
        \A p \in wm.cleared : wm.current_page = Some(p) => PageTicks(p) = 1

\* The task of the StaticPage that ran before and was not made active
\* since is dispatched without touch only after its flag was cleared
\* since its last tick
C37_StaticWaitsForFlag ==
    (/\ pc = "body"
     /\ heap[pass.cur].fn = PageFn("B")
     /\ ~pass.touch_considered_active
     /\ pass_log[Len(pass_log)].gap # None
     /\ ~pass_log[Len(pass_log)].woken) => wm.requested["B"]

\* C37: when needs_update is set on a page, the next tick of the window
\* manager clears the flag and enqueues the task of the page, and the
\* tick of a current page runs once in that same pass; a StaticPage with
\* no touch is not ticked again until needs_update is set again.
C37_NeedsUpdateTicksOnce ==
    /\ C37_FlagClearedAndEnqueued
    /\ C37_CurrentTickedOnce
    /\ C37_StaticWaitsForFlag

\* the StaticPage is current and was ticked before; its tick set
\* needs_update, and with no touch the next pass has ticked it once
C37_Witness ==
    /\ PassDone
    /\ wm.op = "tick"
    /\ wm.current_page = Some("B")
    /\ "B" \in wm.cleared
    /\ ~pass.touch_considered_active
    /\ PageTicks("B") = 1
    /\ \E k \in 1..Len(pass_log) :
          /\ pass_log[k].pre.fn = PageFn("B")
          /\ pass_log[k].ran
          /\ pass_log[k].gap # None
          /\ ~pass_log[k].woken


\* ------------------------------------------------------ RadioButton
\* the radio button was constructed with an index in range
RadioValid == radio.constructed /\ radio.valid

\* exactly one option is down, the one at current_index
C36_OneDown ==
    RadioValid =>
        /\ radio.current_index \in Options(radio)
        /\ \A i \in Options(radio) :
              radio.is_down[i] <=> i = radio.current_index

\* a touch released over the current option leaves it current and down,
\* one released over another option makes that option current
C36_Release ==
    (RadioValid /\ radio.op = "touch") =>
        /\ \A i \in radio.released : radio.current_index = i
        /\ radio.released = {} => radio.current_index = radio.prev

\* on_current_index_changed is called once, with the new index, by an
\* operation that changes the index, and not by one that does not
C36_Callback ==
    (RadioValid /\ radio.op # "init") =>
        radio.changed = IF radio.current_index # radio.prev
                        THEN <<radio.current_index>> ELSE <<>>

\* C36: after construction with a valid index and any sequence of
\* set_current_index calls and touch events, exactly one option button is
\* down, the one at current_index; a touch released over the current
\* option leaves it down, a touch released over another option makes
\* that option current; on_current_index_changed is called once per
\* change of index.
C36_OneOptionDown ==
    /\ C36_OneDown
    /\ C36_Release
    /\ C36_Callback

\* a touch was released over the current option, after an earlier touch
\* released over another option had made that one current
C36_Witness ==
    /\ RadioValid
    /\ radio.op = "touch"
    /\ radio.released = {radio.current_index}
    /\ radio.prev = radio.current_index
    /\ radio.is_down[radio.current_index]
    /\ radio.n = MaxRadioOps
    /\ radio.options = MaxOptions
    /\ radio.current_index = 2

\* a touch was released over an option that was not current
C36_WitnessSwitch ==
    /\ RadioValid
    /\ radio.op = "touch"
    /\ radio.released # {}
    /\ radio.prev # radio.current_index
    /\ radio.changed = <<radio.current_index>>


\* ------------------------------------------------------ BacklightManager
\* the last call was a tick that found the touch active
TickedWithTouch == Ticked /\ bm_log.touch

\* the last call was the first tick: no interaction was recorded before
FirstTick == Ticked /\ Val(bm_log.before).last_interaction_s = None

\* C38: a tick that finds the touch active sets the time of the last
\* interaction to the time of the tick and leaves the phase ON, whatever
\* the phase was, so that the phase is ON after every tick of a series
\* with the touch active; the first tick leaves the phase ON with or
\* without touch.  (Timeouts are not negative.)
C38_TouchKeepsOn ==
    /\ TickedWithTouch =>
          /\ bm.last_interaction_s = Some(bm_log.now)
          /\ bm.display_phase = Some("on")
    /\ FirstTick =>
          /\ bm.last_interaction_s = Some(bm_log.now)
          /\ bm.display_phase = Some("on")

\* a tick with the touch active, more than the sleep timeout after the
\* last interaction and with the display asleep, has left the phase ON
C38_Witness ==
    /\ TickedWithTouch
    /\ ~FirstTick
    /\ PhaseBefore = Some("sleep")
    /\ bm_log.now - Val(Val(bm_log.before).last_interaction_s)
          > bm.display_timeouts.sleep
    /\ bm.display_phase = Some("on")
    /\ bm.last_interaction_s = Some(bm_log.now)


\* ------------------------------------------------------ consumed touch
\* the visit found a task that a touch forces to run, with a positive
\* interval that had not elapsed since its last invocation
ForcedButEarly(v) ==
    /\ Ready(v)
    /\ v.pre.touch_forces_execution
    /\ Undisturbed(v)
    /\ Throttled(v)
    /\ Early(v)

\* the pass of a tick whose touch woke the display and was consumed
WakeTick == InPass /\ run_log.woke

\* the pass of the tick after such a tick, which polled no touch
TickAfterWake == InPass /\ run_log.prev_woke /\ ~run_log.polled

\* C39: a touch that wakes the display and is consumed forces no task:
\* the pass of the tick of the wake takes the touch as inactive and does
\* not invoke a touch-forced task whose interval has not elapsed, and
\* nor does the pass of the next tick, which polls no touch.
C39_ConsumedTouchForcesNothing ==
    (WakeTick \/ TickAfterWake) =>
        /\ ~pass.touch_considered_active
        /\ \A v \in Visits : ForcedButEarly(v) => ~v.ran

\* In the tick after a wake a 1 Hz task that a touch forces to run is
\* visited 200 ms after its last invocation, which was before the wake,
\* and is not invoked.
C39_Witness ==
    /\ TickAfterWake
    /\ \E v \in Visits :
          /\ ForcedButEarly(v)
          /\ ~v.ran
          /\ v.gap = Some(200000 + WaitSleepMs * 1000)


\* ------------------------------------------------------ runs
\* a run is going on
InRun == pc \in {"loop", "pass", "body", "yield"}

\* the step is a call of run()
RunBegins == ~InRun /\ pc' = "loop"

\* C40: a stop() issued before run() is not remembered: run() sets the
\* flag itself, so that during a run the flag is set for as long as
\* stop() was not called in that run, the loop goes from tick to tick
\* meanwhile, and run() returns only after such a stop(); a stop() issued
\* during a run ends that run, which returns in the tick of the stop; a
\* later run() starts with the same task list and the same tasks, last
\* execution times included, so that a task is still invoked only when
\* its interval has elapsed since its last invocation, be it one of an
\* earlier run.
C40_StopNotRemembered ==
    /\ [](InRun => (running <=> ~StoppedInTask))
    /\ [](pc = "stopped" =>
            /\ StoppedInTask
            /\ ~running
            /\ nticks = Val(run_log.stop_tick))
    /\ [](\A v \in Visits :
            (Ready(v) /\ Undisturbed(v) /\ Throttled(v)
             /\ ~pass.touch_considered_active)
            => (v.ran <=> Val(v.gap) >= Val(v.pre.execution_interval_us)))
    /\ [][RunBegins => (running' /\ tasks' = tasks /\ heap' = heap)]_vars
    /\ [][(pc = "loop" /\ ~StoppedInTask) => pc' = "pass"]_vars
    /\ [][(pc = "loop" /\ StoppedInTask) => pc' = "stopped"]_vars

\* The second run, begun after a stop() issued between the runs, is in
\* its first tick: the 5 Hz task, last invoked 100 ms ago in the first
\* run, is visited and not invoked.
C40_Witness ==
    /\ InPass
    /\ run_log.runs = 2
    /\ run_log.after_stop
    /\ nticks = run_log.run_tick + 1
    /\ running
    /\ \E v \in Visits :
          /\ Ready(v) /\ Undisturbed(v) /\ Throttled(v)
          /\ ~pass.touch_considered_active
          /\ v.gap = Some(100000)
          /\ ~v.ran

====
